---- MODULE Spec2Model ----
(***************************************************************************)
(* A model of go-api-template: the cache facade (pkg/cache/facade.go), the *)
(* generic repository (pkg/database/base_repository.go) with the Demo      *)
(* repository built on it, and the Demo service.  Third-party libraries    *)
(* (gocache, gorm, cockroachdb/errors) are modelled by the behaviour the   *)
(* calls in the source rely on.                                            *)
(***************************************************************************)
EXTENDS Integers, Sequences, FiniteSets, TLC

(***************************************************************************)
(* Errors.  An error is the sequence of its messages, outermost wrapper    *)
(* first and root cause last; the nil error is the empty sequence.         *)
(***************************************************************************)
Nil == << >>

ErrNotFound == <<"ErrNotFound">>

ErrRecordNotFound == <<"gorm: record not found">>

ErrDriver == <<"driver: bad connection">>

ErrStoreNotFound == <<"value not found in store">>

ErrBackend == <<"cache backend unavailable">>

\* Wrap: nil stays nil, otherwise the message is put in front of the cause.
Wrap(err, msg) == IF err = Nil THEN Nil ELSE <<msg>> \o err

\* Is: some error of the chain (err, Unwrap(err), ...) equals the target.
Is(err, target) ==
    \E i \in 1..Len(err) : SubSeq(err, i, Len(err)) = target

(***************************************************************************)
(* Cache facade.                                                           *)
(***************************************************************************)
Keys == {"k1", "k2"}

Values == {"", "v1", "v2"}

TTLs == {0, 60}

NoEntry == [present |-> FALSE, value |-> "", ttl |-> 0]

Entry(v, ttl) == [present |-> TRUE, value |-> v, ttl |-> ttl]

\* What a compute callback can do: return a value, or fail (a Go callback may
\* return a non-empty string together with its error).
Callbacks ==
    {[value |-> v, err |-> Nil] : v \in Values}
        \cup {[value |-> "", err |-> <<"compute failed">>],
              [value |-> "v1", err |-> <<"load failed", "ErrNotFound">>]}

VARIABLES
    store,      \* the cache backend: key -> entry
    cres,       \* the facade call that ran last and what it returned
    cprev       \* the facade call that ran before it

cvars == <<store, cres, cprev>>

VARIABLES
    table,      \* the demos table: ID -> row, NoRow where there is none
    nextID,     \* the table's AUTO_INCREMENT counter
    now,        \* the clock gorm reads (NowFunc)
    res         \* the repository or service call that ran last and its results

dvars == <<table, nextID, now, res>>

VARIABLES
    resp        \* the HTTP exchange that ran last: the request and its response

hvars == <<resp>>

VARIABLES
    made,       \* what the cache factory returned to its last caller
    proc        \* the process of main: where main and its goroutine are

pvars == <<made, proc>>

VARIABLES
    calls       \* the calls that goroutines are in the middle of

rvars == <<calls>>

\* manager.Get: a backend failure, a miss, or the stored string.
managerGet(s, key, fail) ==
    IF fail THEN [value |-> "", err |-> ErrBackend]
    ELSE IF ~s[key].present THEN [value |-> "", err |-> ErrStoreNotFound]
    ELSE [value |-> s[key].value, err |-> Nil]

\* manager.Set with store.WithExpiration(ttl): a failed write stores nothing.
managerSet(s, key, value, ttl, fail) ==
    IF fail THEN [store |-> s, err |-> ErrBackend]
    ELSE [store |-> [s EXCEPT ![key] = Entry(value, ttl)], err |-> Nil]

managerDelete(s, key, fail) ==
    IF fail THEN [store |-> s, err |-> ErrBackend]
    ELSE IF ~s[key].present THEN [store |-> s, err |-> ErrStoreNotFound]
    ELSE [store |-> [s EXCEPT ![key] = NoEntry], err |-> Nil]

managerClear(s, fail) ==
    IF fail THEN [store |-> s, err |-> ErrBackend]
    ELSE [store |-> [k \in Keys |-> NoEntry], err |-> Nil]

FacadeGet(s, key, fail) ==
    LET r == managerGet(s, key, fail)
    IN  IF r.err # Nil THEN [value |-> "", err |-> r.err]
        ELSE [value |-> r.value, err |-> Nil]

FacadeSet(s, key, value, ttl, fail) == managerSet(s, key, value, ttl, fail)

FacadeHas(s, key, fail) == managerGet(s, key, fail).err = Nil

GetOutcome(err) ==
    IF err = Nil THEN "hit"
    ELSE IF err = ErrStoreNotFound THEN "miss" ELSE "error"

\* The same as FacadeRemember, but the callback's error is wrapped and the
\* callback's value is written back even when it failed.
FacadeRememberWrapped(s, key, ttl, cb, getFail, setFail) ==
    LET g == FacadeGet(s, key, getFail)
        w == FacadeSet(s, key, cb.value, ttl, setFail)
    IN  IF g.err = Nil
        THEN [value |-> g.value, err |-> Nil, store |-> s, get |-> "hit",
              computeCalls |-> 0, sets |-> << >>]
        ELSE IF cb.err # Nil
        THEN [value |-> "", err |-> Wrap(cb.err, "remember failed"),
              store |-> w.store, get |-> GetOutcome(g.err), computeCalls |-> 1,
              sets |-> <<[key |-> key, value |-> cb.value, ttl |-> ttl]>>]
        ELSE [value |-> cb.value, err |-> Nil, store |-> w.store,
              get |-> GetOutcome(g.err), computeCalls |-> 1,
              sets |-> <<[key |-> key, value |-> cb.value, ttl |-> ttl]>>]

\* The same as FacadeRemember, but a failed write-back is returned.
FacadeRememberSurfaced(s, key, ttl, cb, getFail, setFail) ==
    LET g == FacadeGet(s, key, getFail)
        w == FacadeSet(s, key, cb.value, ttl, setFail)
    IN  IF g.err = Nil
        THEN [value |-> g.value, err |-> Nil, store |-> s, get |-> "hit",
              computeCalls |-> 0, sets |-> << >>]
        ELSE IF cb.err # Nil
        THEN [value |-> "", err |-> cb.err, store |-> s,
              get |-> GetOutcome(g.err), computeCalls |-> 1, sets |-> << >>]
        ELSE [value |-> IF w.err = Nil THEN cb.value ELSE "", err |-> w.err,
              store |-> w.store, get |-> GetOutcome(g.err), computeCalls |-> 1,
              sets |-> <<[key |-> key, value |-> cb.value, ttl |-> ttl]>>]

\* The same as FacadeRemember, but the callback runs before the lookup.
FacadeRememberEager(s, key, ttl, cb, getFail, setFail) ==
    LET g == FacadeGet(s, key, getFail)
        w == FacadeSet(s, key, cb.value, ttl, setFail)
    IN  IF g.err = Nil
        THEN [value |-> g.value, err |-> Nil, store |-> s, get |-> "hit",
              computeCalls |-> 1, sets |-> << >>]
        ELSE IF cb.err # Nil
        THEN [value |-> "", err |-> cb.err, store |-> s,
              get |-> GetOutcome(g.err), computeCalls |-> 1, sets |-> << >>]
        ELSE [value |-> cb.value, err |-> Nil, store |-> w.store,
              get |-> GetOutcome(g.err), computeCalls |-> 1,
              sets |-> <<[key |-> key, value |-> cb.value, ttl |-> ttl]>>]

\* Remember: Get; on a nil error return the cached value.  Otherwise run the
\* callback; its error is returned as it is with the empty string.  Otherwise
\* Set (its error dropped) and return the computed value.
\* Remember computing on a miss only and returning a backend failure of Get.
FacadeRememberMissOnly(s, key, ttl, cb, getFail, setFail) ==
    LET g == FacadeGet(s, key, getFail)
        w == FacadeSet(s, key, cb.value, ttl, setFail)
    IN  IF g.err = Nil
        THEN [value |-> g.value, err |-> Nil, store |-> s, get |-> "hit",
              computeCalls |-> 0, sets |-> << >>]
        ELSE IF GetOutcome(g.err) = "error"
        THEN [value |-> "", err |-> g.err, store |-> s, get |-> "error",
              computeCalls |-> 0, sets |-> << >>]
        ELSE IF cb.err # Nil
        THEN [value |-> "", err |-> cb.err, store |-> s,
              get |-> GetOutcome(g.err), computeCalls |-> 1, sets |-> << >>]
        ELSE [value |-> cb.value, err |-> Nil, store |-> w.store,
              get |-> GetOutcome(g.err), computeCalls |-> 1,
              sets |-> <<[key |-> key, value |-> cb.value, ttl |-> ttl]>>]

FacadeRemember(s, key, ttl, cb, getFail, setFail) ==
    LET g == FacadeGet(s, key, getFail)
        w == FacadeSet(s, key, cb.value, ttl, setFail)
    IN  IF g.err = Nil
        THEN [value |-> g.value, err |-> Nil, store |-> s, get |-> "hit",
              computeCalls |-> 0, sets |-> << >>]
        ELSE IF cb.err # Nil
        THEN [value |-> "", err |-> cb.err, store |-> s,
              get |-> GetOutcome(g.err), computeCalls |-> 1, sets |-> << >>]
        ELSE [value |-> cb.value, err |-> Nil, store |-> w.store,
              get |-> GetOutcome(g.err), computeCalls |-> 1,
              sets |-> <<[key |-> key, value |-> cb.value, ttl |-> ttl]>>]

\* The record of a facade call.  cb is the callback's outcome (Remember only),
\* setFailed tells whether the write-back of a Remember failed.
CacheCall(op, key, value, err, get, computeCalls, sets, cb, setFailed) ==
    [op |-> op, key |-> key, value |-> value, err |-> err, get |-> get,
     computeCalls |-> computeCalls, sets |-> sets, cb |-> cb,
     setFailed |-> setFailed]

NoCallback == [value |-> "", err |-> Nil]

NoCall == CacheCall("none", "", "", Nil, "none", 0, << >>, NoCallback, FALSE)

\* What is kept of the call before the last one: a Remember with its key, its
\* lookup's outcome, its result and the callback's value; of any other call
\* only that it was not a Remember.
Summary(c) ==
    IF c.op = "Remember"
    THEN [op |-> c.op, key |-> c.key, value |-> c.value, get |-> c.get,
          computeCalls |-> c.computeCalls, cbValue |-> c.cb.value]
    ELSE [op |-> "other", key |-> "", value |-> "", get |-> "none",
          computeCalls |-> 0, cbValue |-> ""]

CacheInit ==
    /\ store = [k \in Keys |-> NoEntry]
    /\ cres = NoCall
    /\ cprev = Summary(NoCall)

CacheGet ==
    \E key \in Keys, fail \in BOOLEAN :
        LET r == FacadeGet(store, key, fail)
        IN  /\ cres = NoCall
            /\ cres' = CacheCall("Get", key, r.value, r.err, GetOutcome(r.err),
                                 0, << >>, NoCallback, FALSE)
            /\ UNCHANGED <<cprev, dvars, hvars, pvars, rvars>>
            /\ UNCHANGED store

CacheSet ==
    \E key \in Keys, value \in Values, ttl \in TTLs, fail \in BOOLEAN :
        LET r == FacadeSet(store, key, value, ttl, fail)
        IN  /\ cres = NoCall
            /\ store' = r.store
            /\ cres' = CacheCall("Set", key, "", r.err, "none", 0,
                                 <<[key |-> key, value |-> value, ttl |-> ttl]>>,
                                 NoCallback, r.err # Nil)
            /\ UNCHANGED <<cprev, dvars, hvars, pvars, rvars>>

CacheDelete ==
    \E key \in Keys, fail \in BOOLEAN :
        LET r == managerDelete(store, key, fail)
        IN  /\ cres = NoCall
            /\ store' = r.store
            /\ cres' = CacheCall("Delete", key, "", r.err, "none", 0, << >>,
                                 NoCallback, FALSE)
            /\ UNCHANGED <<cprev, dvars, hvars, pvars, rvars>>

CacheHas ==
    \E key \in Keys, fail \in BOOLEAN :
        LET r == FacadeHas(store, key, fail)
        IN  /\ cres = NoCall
            /\ cres' = CacheCall("Has", key, IF r THEN "true" ELSE "false", Nil,
                                 "none", 0, << >>, NoCallback, FALSE)
            /\ UNCHANGED <<cprev, dvars, hvars, pvars, rvars>>
            /\ UNCHANGED store

CacheRemember ==
    \E key \in Keys, ttl \in TTLs, cb \in Callbacks,
       getFail \in BOOLEAN, setFail \in BOOLEAN :
        LET r == FacadeRemember(store, key, ttl, cb, getFail, setFail)
        IN  /\ cres = NoCall
            /\ store' = r.store
            /\ cres' = CacheCall("Remember", key, r.value, r.err, r.get,
                                 r.computeCalls, r.sets,
                                 IF r.computeCalls > 0 THEN cb ELSE NoCallback,
                                 r.sets # << >> /\ setFail)
            /\ UNCHANGED <<cprev, dvars, hvars, pvars, rvars>>

CacheClear ==
    \E fail \in BOOLEAN :
        LET r == managerClear(store, fail)
        IN  /\ cres = NoCall
            /\ store' = r.store
            /\ cres' = CacheCall("Clear", "", "", r.err, "none", 0, << >>,
                                 NoCallback, FALSE)
            /\ UNCHANGED <<cprev, dvars, hvars, pvars, rvars>>

\* An entry's time to live runs out.
CacheExpire ==
    \E key \in Keys :
        /\ cres = NoCall
        /\ store[key].present
        /\ store' = [store EXCEPT ![key] = NoEntry]
        /\ cres' = CacheCall("Expire", key, "", Nil, "none", 0, << >>,
                             NoCallback, FALSE)
        /\ UNCHANGED <<cprev, dvars, hvars, pvars, rvars>>

\* The caller takes the result; the call becomes the previous one.
CacheReturn ==
    /\ cres # NoCall
    /\ cres' = NoCall
    /\ cprev' = Summary(cres)
    /\ UNCHANGED <<store, dvars, hvars, pvars, rvars>>

CacheNext ==
    \/ CacheGet
    \/ CacheSet
    \/ CacheDelete
    \/ CacheHas
    \/ CacheRemember
    \/ CacheClear
    \/ CacheExpire
    \/ CacheReturn

(***************************************************************************)
(* The demos table and the gorm calls the repository makes.                *)
(***************************************************************************)
MaxID == 3

MaxClock == 2

\* The rows the Demo repository and service create while the clock runs.
MaxDemos == 2

IDs == 1..MaxID

\* The zero value of model.Demo; it also stands for "no row".
NoRow ==
    [ID |-> 0, Title |-> "", Content |-> "", Status |-> 0,
     CreatedAt |-> 0, UpdatedAt |-> 0]

Demo(id, title, content, status, createdAt, updatedAt) ==
    [ID |-> id, Title |-> title, Content |-> content, Status |-> status,
     CreatedAt |-> createdAt, UpdatedAt |-> updatedAt]

\* The Demo values callers hand in: ID and timestamps are left zero.
DemoA == Demo(0, "A", "x", 0, 0, 0)

DemoEmpty == Demo(0, "", "", 2, 0, 0)

DemoInputs == {DemoA, DemoEmpty}

\* gorm:"default:1" on Demo.Status.
StatusDefault == 1

\* Conditions handed to Where: "1 = 1" and "status = ?" with its argument.
QueryAll == [kind |-> "all", arg |-> 0]

QueryStatus(s) == [kind |-> "status", arg |-> s]

\* A nil query: no Where is added (FindPage, Count).
QueryNil == [kind |-> "nil", arg |-> 0]

Queries == {QueryAll, QueryStatus(1)}

Matches(row, q) ==
    /\ row # NoRow
    /\ q.kind = "status" => row.Status = q.arg

RECURSIVE SelectFrom(_, _, _)
\* The rows matching q with ID >= i, in primary key order.
SelectFrom(t, q, i) ==
    IF i > MaxID THEN << >>
    ELSE (IF Matches(t[i], q) THEN <<t[i]>> ELSE << >>) \o SelectFrom(t, q, i + 1)

Select(t, q) == SelectFrom(t, q, 1)

Min(a, b) == IF a < b THEN a ELSE b

\* Offset(offset).Limit(limit) applied to a result.
OffsetLimit(rows, offset, limit) ==
    SubSeq(rows, offset + 1, Min(Len(rows), offset + limit))

HasRow(t, id) == id \in IDs /\ t[id] # NoRow

\* db.Where("id = ?", id).First(dest)
gormFirstByID(t, id, fail) ==
    IF fail THEN [err |-> ErrDriver, row |-> NoRow]
    ELSE IF HasRow(t, id) THEN [err |-> Nil, row |-> t[id]]
    ELSE [err |-> ErrRecordNotFound, row |-> NoRow]

\* db.Where(query, args...).First(dest)
gormFirst(t, q, fail) ==
    IF fail THEN [err |-> ErrDriver, row |-> NoRow]
    ELSE IF Select(t, q) # << >> THEN [err |-> Nil, row |-> Head(Select(t, q))]
    ELSE [err |-> ErrRecordNotFound, row |-> NoRow]

\* db.Where(query, args...).Find(dest)
gormFind(t, q, fail) ==
    IF fail THEN [err |-> ErrDriver, rows |-> << >>]
    ELSE [err |-> Nil, rows |-> Select(t, q)]

\* db.Count(&total)
gormCount(t, q, fail) ==
    IF fail THEN [err |-> ErrDriver, count |-> 0]
    ELSE [err |-> Nil, count |-> Len(Select(t, q))]

\* The value gorm inserts for a struct: a zero field with a default tag takes
\* the default, zero CreatedAt and UpdatedAt take the current time, and the
\* struct is updated with what was inserted.
CreateValues(d, clock) ==
    [d EXCEPT !.Status = IF d.Status = 0 THEN StatusDefault ELSE d.Status,
              !.CreatedAt = IF d.CreatedAt = 0 THEN clock ELSE d.CreatedAt,
              !.UpdatedAt = IF d.UpdatedAt = 0 THEN clock ELSE d.UpdatedAt]

Max(a, b) == IF a > b THEN a ELSE b

\* The same as gormCreate, but the struct's fields are inserted as they are.
gormCreateNoDefault(t, next, clock, d, fail) ==
    LET v == [d EXCEPT !.CreatedAt = IF d.CreatedAt = 0 THEN clock ELSE d.CreatedAt,
                       !.UpdatedAt = IF d.UpdatedAt = 0 THEN clock ELSE d.UpdatedAt]
        id == IF d.ID = 0 THEN next ELSE d.ID
    IN  IF fail \/ HasRow(t, id)
        THEN [err |-> ErrDriver, table |-> t, nextID |-> next, value |-> v,
              affected |-> 0]
        ELSE [err |-> Nil, table |-> [t EXCEPT ![id] = [v EXCEPT !.ID = id]],
              nextID |-> Max(next, id + 1), value |-> [v EXCEPT !.ID = id],
              affected |-> 1]

\* db.Create(value): INSERT; a zero ID is assigned from the counter, a row
\* with the same ID is a duplicate key error.
gormCreate(t, next, clock, d, fail) ==
    LET v == CreateValues(d, clock)
        id == IF d.ID = 0 THEN next ELSE d.ID
    IN  IF fail \/ HasRow(t, id)
        THEN [err |-> ErrDriver, table |-> t, nextID |-> next, value |-> v,
              affected |-> 0]
        ELSE [err |-> Nil, table |-> [t EXCEPT ![id] = [v EXCEPT !.ID = id]],
              nextID |-> Max(next, id + 1), value |-> [v EXCEPT !.ID = id],
              affected |-> 1]

\* INSERT ... ON DUPLICATE KEY UPDATE of every column (Save's second step).
gormUpsert(t, next, clock, d, fail) ==
    LET v == CreateValues(d, clock)
    IN  IF fail
        THEN [err |-> ErrDriver, table |-> t, nextID |-> next, value |-> v,
              affected |-> 0]
        ELSE [err |-> Nil, table |-> [t EXCEPT ![d.ID] = v],
              nextID |-> Max(next, d.ID + 1), value |-> v, affected |-> 1]

\* db.Save(value): a zero ID is a Create.  Otherwise UPDATE of every column
\* with UpdatedAt set to the current time; when that changes no row (MySQL
\* counts changed rows, the DSN does not set clientFoundRows) an upsert follows.
gormSave(t, next, clock, d, fail) ==
    LET v == [d EXCEPT !.UpdatedAt = clock]
        changed == HasRow(t, d.ID) /\ t[d.ID] # v
    IN  IF d.ID = 0 THEN gormCreate(t, next, clock, d, fail)
        ELSE IF fail
        THEN [err |-> ErrDriver, table |-> t, nextID |-> next, value |-> v,
              affected |-> 0]
        ELSE IF changed
        THEN [err |-> Nil, table |-> [t EXCEPT ![d.ID] = v], nextID |-> next,
              value |-> v, affected |-> 1]
        ELSE gormUpsert(t, next, clock, v, FALSE)

\* db.Model(model).Where(query, args...).Updates(map): the columns of the map
\* and UpdatedAt are set in every matching row.
gormUpdates(t, clock, q, status, fail) ==
    IF fail THEN [err |-> ErrDriver, table |-> t, affected |-> 0]
    ELSE [err |-> Nil,
          table |-> [i \in IDs |->
                        IF Matches(t[i], q)
                        THEN [t[i] EXCEPT !.Status = status, !.UpdatedAt = clock]
                        ELSE t[i]],
          affected |-> Len(Select(t, q))]

\* db.Delete(model, id): DELETE FROM demos WHERE id IN (id).
gormDeleteByID(t, id, fail) ==
    IF fail THEN [err |-> ErrDriver, table |-> t, affected |-> 0]
    ELSE IF HasRow(t, id)
    THEN [err |-> Nil, table |-> [t EXCEPT ![id] = NoRow], affected |-> 1]
    ELSE [err |-> Nil, table |-> t, affected |-> 0]

\* db.Where(query, args...).Delete(model)
gormDeleteWhere(t, q, fail) ==
    IF fail THEN [err |-> ErrDriver, table |-> t, affected |-> 0]
    ELSE [err |-> Nil,
          table |-> [i \in IDs |-> IF Matches(t[i], q) THEN NoRow ELSE t[i]],
          affected |-> Len(Select(t, q))]

(***************************************************************************)
(* BaseRepository (pkg/database/base_repository.go).  Every operator takes *)
(* the table and returns the error with the results; cause is the error    *)
(* the gorm call returned.                                                 *)
(***************************************************************************)

\* The same as BaseFindByID, but a missing row is reported like any failure.
BaseFindByIDGeneric(t, id, fail) ==
    LET r == gormFirstByID(t, id, fail)
    IN  [err |-> Wrap(r.err, "query by id failed"), cause |-> r.err, row |-> r.row]

\* The same as BaseFindByID, but the sentinel is wrapped like a failure.
BaseFindByIDWrapped(t, id, fail) ==
    LET r == gormFirstByID(t, id, fail)
    IN  [err |-> IF r.err = ErrRecordNotFound
                 THEN Wrap(ErrNotFound, "query by id failed")
                 ELSE Wrap(r.err, "query by id failed"),
         cause |-> r.err, row |-> r.row]

BaseFindByID(t, id, fail) ==
    LET r == gormFirstByID(t, id, fail)
    IN  [err |-> IF r.err = ErrRecordNotFound THEN ErrNotFound
                 ELSE Wrap(r.err, "query by id failed"),
         cause |-> r.err, row |-> r.row]

BaseFindOne(t, q, fail) ==
    LET r == gormFirst(t, q, fail)
    IN  [err |-> IF r.err = ErrRecordNotFound THEN ErrNotFound
                 ELSE Wrap(r.err, "query one failed"),
         cause |-> r.err, row |-> r.row]

BaseFindAll(t, q, fail) ==
    LET r == gormFind(t, q, fail)
    IN  [err |-> Wrap(r.err, "query all failed"), cause |-> r.err, rows |-> r.rows]

\* The same as BaseFindPage, but the offset is page * pageSize.
BaseFindPageZeroBased(t, page, pageSize, q, countFail, findFail) ==
    LET c == gormCount(t, q, countFail)
        f == gormFind(t, q, findFail)
    IN  IF c.err # Nil
        THEN [err |-> Wrap(c.err, "count failed"), cause |-> c.err,
              rows |-> << >>, total |-> 0]
        ELSE IF f.err # Nil
        THEN [err |-> Wrap(f.err, "query page failed"), cause |-> f.err,
              rows |-> << >>, total |-> 0]
        ELSE [err |-> Nil, cause |-> Nil,
              rows |-> OffsetLimit(f.rows, page * pageSize, pageSize),
              total |-> c.count]

\* FindPage: Count, then Offset((page - 1) * pageSize).Limit(pageSize).Find.
BaseFindPage(t, page, pageSize, q, countFail, findFail) ==
    LET c == gormCount(t, q, countFail)
        f == gormFind(t, q, findFail)
        offset == (page - 1) * pageSize
    IN  IF c.err # Nil
        THEN [err |-> Wrap(c.err, "count failed"), cause |-> c.err,
              rows |-> << >>, total |-> 0]
        ELSE IF f.err # Nil
        THEN [err |-> Wrap(f.err, "query page failed"), cause |-> f.err,
              rows |-> << >>, total |-> 0]
        ELSE [err |-> Nil, cause |-> Nil,
              rows |-> OffsetLimit(f.rows, offset, pageSize), total |-> c.count]

BaseCount(t, q, fail) ==
    LET r == gormCount(t, q, fail)
    IN  IF r.err # Nil
        THEN [err |-> Wrap(r.err, "count failed"), cause |-> r.err, total |-> 0]
        ELSE [err |-> Nil, cause |-> Nil, total |-> r.count]

\* Exists: Limit(1).Count(&count) counts every matching row; count > 0.
BaseExists(t, q, fail) ==
    LET r == gormCount(t, q, fail)
    IN  IF r.err # Nil
        THEN [err |-> Wrap(r.err, "check exists failed"), cause |-> r.err,
              exists |-> FALSE]
        ELSE [err |-> Nil, cause |-> Nil, exists |-> r.count > 0]

BaseCreate(t, next, clock, d, fail) ==
    LET r == gormCreate(t, next, clock, d, fail)
    IN  [err |-> Wrap(r.err, "create failed"), cause |-> r.err,
         table |-> r.table, nextID |-> r.nextID, value |-> r.value]

RECURSIVE InsertAll(_, _, _, _)
\* The rows of ds inserted one after the other.
InsertAll(t, next, clock, ds) ==
    IF ds = << >> THEN [table |-> t, nextID |-> next, values |-> << >>]
    ELSE LET r == gormCreate(t, next, clock, Head(ds), FALSE)
             rest == InsertAll(r.table, r.nextID, clock, Tail(ds))
         IN  [table |-> rest.table, nextID |-> rest.nextID,
              values |-> <<r.value>> \o rest.values]

\* CreateInBatches: one INSERT per batch, all batches in one transaction.
BaseCreateInBatches(t, next, clock, ds, batchSize, fail) ==
    LET r == InsertAll(t, next, clock, ds)
    IN  IF fail
        THEN [err |-> Wrap(ErrDriver, "create in batches failed"),
              cause |-> ErrDriver, table |-> t, nextID |-> next, values |-> ds]
        ELSE [err |-> Nil, cause |-> Nil, table |-> r.table,
              nextID |-> r.nextID, values |-> r.values]

BaseUpdate(t, next, clock, d, fail) ==
    LET r == gormSave(t, next, clock, d, fail)
    IN  [err |-> Wrap(r.err, "update failed"), cause |-> r.err,
         table |-> r.table, nextID |-> r.nextID, value |-> r.value]

BaseUpdateFields(t, clock, q, status, fail) ==
    LET r == gormUpdates(t, clock, q, status, fail)
    IN  [err |-> Wrap(r.err, "update fields failed"), cause |-> r.err,
         table |-> r.table, affected |-> r.affected]

\* UpdateColumn calls Update(column, value), which runs the update hooks and
\* sets UpdatedAt like Updates.
BaseUpdateColumn(t, clock, q, status, fail) ==
    LET r == gormUpdates(t, clock, q, status, fail)
    IN  [err |-> Wrap(r.err, "update column failed"), cause |-> r.err,
         table |-> r.table, affected |-> r.affected]

\* The same as BaseDelete, but the row is kept and marked with status 0.
BaseDeleteSoft(t, id, fail) ==
    LET r == gormDeleteByID(t, id, fail)
    IN  [err |-> Wrap(r.err, "delete failed"), cause |-> r.err,
         table |-> IF r.affected = 1 THEN [t EXCEPT ![id].Status = 0] ELSE t,
         affected |-> r.affected]

BaseDelete(t, id, fail) ==
    LET r == gormDeleteByID(t, id, fail)
    IN  [err |-> Wrap(r.err, "delete failed"), cause |-> r.err,
         table |-> r.table, affected |-> r.affected]

BaseDeleteWhere(t, q, fail) ==
    LET r == gormDeleteWhere(t, q, fail)
    IN  [err |-> Wrap(r.err, "delete where failed"), cause |-> r.err,
         table |-> r.table, affected |-> r.affected]

\* The value a caller hands to Save for the row id: the row as it was read
\* (a struct with only the ID when there is none) with the fields of d.
SaveValue(t, id, d) ==
    [(IF HasRow(t, id) THEN t[id] ELSE [NoRow EXCEPT !.ID = id])
        EXCEPT !.Title = d.Title, !.Content = d.Content, !.Status = d.Status]

\* DemoRepository.CreateWithTx and UpdateWithTx on the transaction handle.
CreateWithTx(t, next, clock, d, fail) ==
    LET r == gormCreate(t, next, clock, d, fail)
    IN  [err |-> Wrap(r.err, "create with tx failed"), table |-> r.table,
         nextID |-> r.nextID, value |-> r.value]

UpdateWithTx(t, next, clock, d, fail) ==
    LET r == gormSave(t, next, clock, d, fail)
    IN  [err |-> Wrap(r.err, "update with tx failed"), table |-> r.table,
         nextID |-> r.nextID, value |-> r.value]

\* A transaction body: the writes it issues on the handle, in order, and the
\* error it returns after them.  As in the documented usage the body returns
\* the error of a failed write at once.
TxCreate(d, fail) == [kind |-> "create", id |-> 0, d |-> d, fail |-> fail]

TxSave(id, d, fail) == [kind |-> "save", id |-> id, d |-> d, fail |-> fail]

ErrBusiness == <<"business rule violated">>

TxWrites ==
    {<<TxCreate(DemoA, FALSE)>>,
     <<TxCreate(DemoA, FALSE), TxSave(1, DemoEmpty, FALSE)>>,
     <<TxCreate(DemoA, FALSE), TxCreate(DemoEmpty, TRUE)>>}

TxFns == {[writes |-> w, ret |-> e] : w \in TxWrites, e \in {Nil, ErrBusiness}}

\* The rows a body needs from the counter.
Inserts(writes) ==
    Cardinality({i \in 1..Len(writes) : writes[i].kind = "create"})

RECURSIVE RunWrites(_, _, _, _)
\* The writes applied to the transaction's view of the table, up to the first
\* that fails; values are the structs as gorm leaves them.
RunWrites(t, next, clock, writes) ==
    IF writes = << >>
    THEN [err |-> Nil, table |-> t, nextID |-> next, values |-> << >>]
    ELSE LET w == Head(writes)
             r == IF w.kind = "create"
                  THEN CreateWithTx(t, next, clock, w.d, w.fail)
                  ELSE UpdateWithTx(t, next, clock, SaveValue(t, w.id, w.d), w.fail)
             rest == RunWrites(r.table, r.nextID, clock, Tail(writes))
         IN  IF r.err # Nil
             THEN [err |-> r.err, table |-> t, nextID |-> next, values |-> << >>]
             ELSE [err |-> rest.err, table |-> rest.table,
                   nextID |-> rest.nextID, values |-> <<r.value>> \o rest.values]

\* The same as BaseTransaction, but the writes made before the body failed
\* stay in the table.
BaseTransactionNoRollback(t, next, clock, fn, beginFail, commitFail) ==
    LET w == RunWrites(t, next, clock, fn.writes)
        fnErr == IF w.err # Nil THEN w.err ELSE fn.ret
    IN  IF beginFail
        THEN [err |-> ErrDriver, cause |-> ErrDriver, table |-> t,
              nextID |-> next, values |-> << >>, fnErr |-> Nil, ran |-> FALSE]
        ELSE IF fnErr # Nil
        THEN [err |-> fnErr, cause |-> fnErr, table |-> w.table,
              nextID |-> w.nextID, values |-> w.values, fnErr |-> fnErr,
              ran |-> TRUE]
        ELSE IF commitFail
        THEN [err |-> ErrDriver, cause |-> ErrDriver, table |-> t,
              nextID |-> w.nextID, values |-> w.values, fnErr |-> Nil,
              ran |-> TRUE]
        ELSE [err |-> Nil, cause |-> Nil, table |-> w.table,
              nextID |-> w.nextID, values |-> w.values, fnErr |-> Nil,
              ran |-> TRUE]

\* The same as BaseTransaction, but every error is wrapped.
BaseTransactionWrapped(t, next, clock, fn, beginFail, commitFail) ==
    LET w == RunWrites(t, next, clock, fn.writes)
        fnErr == IF w.err # Nil THEN w.err ELSE fn.ret
    IN  IF beginFail
        THEN [err |-> Wrap(ErrDriver, "transaction failed"), cause |-> ErrDriver,
              table |-> t, nextID |-> next, values |-> << >>, fnErr |-> Nil,
              ran |-> FALSE]
        ELSE IF fnErr # Nil
        THEN [err |-> Wrap(fnErr, "transaction failed"), cause |-> fnErr,
              table |-> t, nextID |-> w.nextID, values |-> w.values,
              fnErr |-> fnErr, ran |-> TRUE]
        ELSE IF commitFail
        THEN [err |-> Wrap(ErrDriver, "transaction failed"), cause |-> ErrDriver,
              table |-> t, nextID |-> w.nextID, values |-> w.values,
              fnErr |-> Nil, ran |-> TRUE]
        ELSE [err |-> Nil, cause |-> Nil, table |-> w.table,
              nextID |-> w.nextID, values |-> w.values, fnErr |-> Nil,
              ran |-> TRUE]

\* Transaction forwards to gorm's Transaction: Begin (its error is returned),
\* the body; a body error rolls back and is returned as it is, otherwise
\* Commit, whose error is returned.  The counter is not rolled back (InnoDB).
BaseTransaction(t, next, clock, fn, beginFail, commitFail) ==
    LET w == RunWrites(t, next, clock, fn.writes)
        fnErr == IF w.err # Nil THEN w.err ELSE fn.ret
    IN  IF beginFail
        THEN [err |-> ErrDriver, cause |-> ErrDriver, table |-> t,
              nextID |-> next, values |-> << >>, fnErr |-> Nil, ran |-> FALSE]
        ELSE IF fnErr # Nil
        THEN [err |-> fnErr, cause |-> fnErr, table |-> t,
              nextID |-> w.nextID, values |-> w.values, fnErr |-> fnErr,
              ran |-> TRUE]
        ELSE IF commitFail
        THEN [err |-> ErrDriver, cause |-> ErrDriver, table |-> t,
              nextID |-> w.nextID, values |-> w.values, fnErr |-> Nil,
              ran |-> TRUE]
        ELSE [err |-> Nil, cause |-> Nil, table |-> w.table,
              nextID |-> w.nextID, values |-> w.values, fnErr |-> Nil,
              ran |-> TRUE]

\* The hand-written statements given to Exec and Raw.
ExecStatements == {"DELETE FROM demos WHERE status = 0"}

RawStatements == {"SELECT COUNT(*) FROM demos"}

BaseExec(t, sql, fail) ==
    LET r == gormDeleteWhere(t, QueryStatus(0), fail)
    IN  [err |-> Wrap(r.err, "exec sql failed"), cause |-> r.err,
         table |-> r.table, affected |-> r.affected]

BaseRaw(t, sql, fail) ==
    LET r == gormCount(t, QueryNil, fail)
    IN  [err |-> Wrap(r.err, "raw query failed"), cause |-> r.err,
         total |-> r.count]

(***************************************************************************)
(* DemoRepository (internal/repository) and DemoService                    *)
(* (internal/service/demo_service.go).                                     *)
(***************************************************************************)

\* Wrapf's message "demo not found, id: %d".
DemoNotFoundMsg(id) ==
    IF id = 2147483646 THEN "demo not found, id: 2147483646"
    ELSE <<"demo not found, id: 0", "demo not found, id: 1",
           "demo not found, id: 2", "demo not found, id: 3",
           "demo not found, id: 4", "demo not found, id: 5">>[id + 1]

\* The same as DemoFindByID, but the repository's error is replaced by a new
\* one with the message.
DemoFindByIDFlattened(t, id, fail) ==
    LET r == BaseFindByID(t, id, fail)
    IN  IF r.err # Nil
        THEN [err |-> <<DemoNotFoundMsg(id)>>, baseErr |-> r.err,
              cause |-> r.cause, row |-> NoRow]
        ELSE [err |-> Nil, baseErr |-> Nil, cause |-> Nil, row |-> r.row]

DemoFindByID(t, id, fail) ==
    LET r == BaseFindByID(t, id, fail)
    IN  IF r.err # Nil
        THEN [err |-> Wrap(r.err, DemoNotFoundMsg(id)), baseErr |-> r.err,
              cause |-> r.cause, row |-> NoRow]
        ELSE [err |-> Nil, baseErr |-> Nil, cause |-> Nil, row |-> r.row]

DemoFindAll(t, fail) ==
    LET r == BaseFindAll(t, QueryAll, fail)
    IN  IF r.err # Nil THEN [err |-> r.err, cause |-> r.cause, rows |-> << >>]
        ELSE [err |-> Nil, cause |-> Nil, rows |-> r.rows]

DemoCreate(t, next, clock, d, fail) == BaseCreate(t, next, clock, d, fail)

DemoUpdate(t, next, clock, d, fail) == BaseUpdate(t, next, clock, d, fail)

DemoDelete(t, id, fail) == BaseDelete(t, id, fail)

DemoFindPage(t, page, pageSize, countFail, findFail) ==
    LET r == BaseFindPage(t, page, pageSize, QueryAll, countFail, findFail)
    IN  IF r.err # Nil
        THEN [err |-> r.err, cause |-> r.cause, rows |-> << >>, total |-> 0]
        ELSE [err |-> Nil, cause |-> Nil, rows |-> r.rows, total |-> r.total]

\* A log entry of the service: level, message and the names of its fields.
Log(level, msg, fields) == [level |-> level, msg |-> msg, fields |-> fields]

ErrTitleEmpty == <<"title cannot be empty">>

ServiceGetByID(t, id, fail) ==
    LET r == DemoFindByID(t, id, fail)
    IN  IF r.err # Nil
        THEN [err |-> r.err, cause |-> r.cause, row |-> NoRow,
              logs |-> <<Log("error", "get demo by id failed", {"id", "error"})>>]
        ELSE [err |-> Nil, cause |-> Nil, row |-> r.row, logs |-> << >>]

ServiceGetAll(t, fail) ==
    LET r == DemoFindAll(t, fail)
    IN  IF r.err # Nil
        THEN [err |-> r.err, cause |-> r.cause, rows |-> << >>,
              logs |-> <<Log("error", "get all demos failed", {"error"})>>]
        ELSE [err |-> Nil, cause |-> Nil, rows |-> r.rows, logs |-> << >>]

\* Create: an empty title is refused before the repository is called.
ServiceCreate(t, next, clock, d, fail) ==
    LET r == DemoCreate(t, next, clock, d, fail)
    IN  IF d.Title = ""
        THEN [err |-> ErrTitleEmpty, cause |-> Nil, table |-> t,
              nextID |-> next, value |-> d, logs |-> << >>]
        ELSE IF r.err # Nil
        THEN [err |-> r.err, cause |-> r.cause, table |-> r.table,
              nextID |-> r.nextID, value |-> r.value,
              logs |-> <<Log("error", "create demo failed", {"title", "error"})>>]
        ELSE [err |-> Nil, cause |-> Nil, table |-> r.table,
              nextID |-> r.nextID, value |-> r.value,
              logs |-> <<Log("info", "demo created successfully", {"id", "title"})>>]

\* The same as ServiceUpdate, but the record is saved under the id without
\* being looked up first.
ServiceUpdateBlind(t, next, clock, id, d, findFail, saveFail) ==
    LET r == DemoUpdate(t, next, clock, [d EXCEPT !.ID = id], saveFail)
    IN  IF r.err # Nil
        THEN [err |-> r.err, cause |-> r.cause, table |-> r.table,
              nextID |-> r.nextID, value |-> r.value,
              logs |-> <<Log("error", "update demo failed", {"id", "error"})>>]
        ELSE [err |-> Nil, cause |-> Nil, table |-> r.table,
              nextID |-> r.nextID, value |-> r.value,
              logs |-> <<Log("info", "demo updated successfully", {"id"})>>]

\* Update: FindByID (its error is returned without a log entry), then the
\* row read gets the title, content and status of d and is saved.
ServiceUpdate(t, next, clock, id, d, findFail, saveFail) ==
    LET f == DemoFindByID(t, id, findFail)
        existing == [f.row EXCEPT !.Title = d.Title, !.Content = d.Content,
                                  !.Status = d.Status]
        r == DemoUpdate(t, next, clock, existing, saveFail)
    IN  IF f.err # Nil
        THEN [err |-> f.err, cause |-> f.cause, table |-> t, nextID |-> next,
              value |-> NoRow, logs |-> << >>]
        ELSE IF r.err # Nil
        THEN [err |-> r.err, cause |-> r.cause, table |-> r.table,
              nextID |-> r.nextID, value |-> r.value,
              logs |-> <<Log("error", "update demo failed", {"id", "error"})>>]
        ELSE [err |-> Nil, cause |-> Nil, table |-> r.table,
              nextID |-> r.nextID, value |-> r.value,
              logs |-> <<Log("info", "demo updated successfully", {"id"})>>]

\* Delete: FindByID (its error is returned without a log entry), then Delete.
ServiceDelete(t, id, findFail, deleteFail) ==
    LET f == DemoFindByID(t, id, findFail)
        r == DemoDelete(t, id, deleteFail)
    IN  IF f.err # Nil
        THEN [err |-> f.err, cause |-> f.cause, table |-> t, affected |-> 0,
              logs |-> << >>]
        ELSE IF r.err # Nil
        THEN [err |-> r.err, cause |-> r.cause, table |-> r.table,
              affected |-> r.affected,
              logs |-> <<Log("error", "delete demo failed", {"id", "error"})>>]
        ELSE [err |-> Nil, cause |-> Nil, table |-> r.table,
              affected |-> r.affected,
              logs |-> <<Log("info", "demo deleted successfully", {"id"})>>]

(***************************************************************************)
(* The calls as actions.  res records the call that ran last: its          *)
(* arguments, what it returned and what the gorm call under it returned.   *)
(***************************************************************************)
MaxPage == 3

Pages == 1..MaxPage

NoRes ==
    [op |-> "none", id |-> 0, q |-> QueryNil, page |-> 0, pageSize |-> 0,
     in |-> NoRow, fn |-> << >>, fnErr |-> Nil, ran |-> FALSE,
     err |-> Nil, baseErr |-> Nil, cause |-> Nil, row |-> NoRow,
     rows |-> << >>, total |-> 0, affected |-> 0, exists |-> FALSE,
     logs |-> << >>]

DemoInit ==
    /\ table = [i \in IDs |-> NoRow]
    /\ nextID = 1
    /\ now = 1
    /\ res = NoRes

\* Time passes.
Tick ==
    /\ res = NoRes
    /\ now < MaxClock
    /\ now' = now + 1
    /\ UNCHANGED <<table, nextID, res, cvars, hvars, pvars, rvars>>

Failures == {"none", "first", "second"}

RepoFindByID ==
    \E id \in 0..MaxID, fail \in BOOLEAN :
        LET r == BaseFindByID(table, id, fail)
        IN  /\ res = NoRes
            /\ res' = [NoRes EXCEPT !.op = "Base.FindByID", !.id = id,
                           !.err = r.err, !.baseErr = r.err, !.cause = r.cause,
                           !.row = r.row]
            /\ UNCHANGED <<table, nextID, now, cvars, hvars, pvars, rvars>>

RepoFindOne ==
    \E q \in Queries, fail \in BOOLEAN :
        LET r == BaseFindOne(table, q, fail)
        IN  /\ res = NoRes
            /\ res' = [NoRes EXCEPT !.op = "Base.FindOne", !.q = q,
                           !.err = r.err, !.cause = r.cause, !.row = r.row]
            /\ UNCHANGED <<table, nextID, now, cvars, hvars, pvars, rvars>>

RepoFindAll ==
    \E q \in Queries, fail \in BOOLEAN :
        LET r == BaseFindAll(table, q, fail)
        IN  /\ res = NoRes
            /\ res' = [NoRes EXCEPT !.op = "Base.FindAll", !.q = q,
                           !.err = r.err, !.cause = r.cause, !.rows = r.rows]
            /\ UNCHANGED <<table, nextID, now, cvars, hvars, pvars, rvars>>

RepoFindPage ==
    \E page \in Pages, pageSize \in Pages, q \in {QueryNil, QueryStatus(1)},
       fail \in Failures :
        LET r == BaseFindPage(table, page, pageSize, q,
                              fail = "first", fail = "second")
        IN  /\ res = NoRes
            /\ res' = [NoRes EXCEPT !.op = "Base.FindPage", !.q = q,
                           !.page = page, !.pageSize = pageSize,
                           !.err = r.err, !.cause = r.cause, !.rows = r.rows,
                           !.total = r.total]
            /\ UNCHANGED <<table, nextID, now, cvars, hvars, pvars, rvars>>

RepoCount ==
    \E q \in Queries \cup {QueryNil}, fail \in BOOLEAN :
        LET r == BaseCount(table, q, fail)
        IN  /\ res = NoRes
            /\ res' = [NoRes EXCEPT !.op = "Base.Count", !.q = q,
                           !.err = r.err, !.cause = r.cause, !.total = r.total]
            /\ UNCHANGED <<table, nextID, now, cvars, hvars, pvars, rvars>>

RepoExists ==
    \E q \in Queries, fail \in BOOLEAN :
        LET r == BaseExists(table, q, fail)
        IN  /\ res = NoRes
            /\ res' = [NoRes EXCEPT !.op = "Base.Exists", !.q = q,
                           !.err = r.err, !.cause = r.cause,
                           !.exists = r.exists]
            /\ UNCHANGED <<table, nextID, now, cvars, hvars, pvars, rvars>>

RepoCreate ==
    \E d \in DemoInputs, fail \in BOOLEAN :
        LET r == BaseCreate(table, nextID, now, d, fail)
        IN  /\ res = NoRes
            /\ r.nextID <= MaxID + 1
            /\ table' = r.table
            /\ nextID' = r.nextID
            /\ res' = [NoRes EXCEPT !.op = "Base.Create", !.in = d,
                           !.err = r.err, !.cause = r.cause, !.row = r.value]
            /\ UNCHANGED <<now, cvars, hvars, pvars, rvars>>

RepoCreateInBatches ==
    \E batchSize \in 1..2, fail \in BOOLEAN :
        LET ds == <<DemoA, DemoEmpty>>
            r == BaseCreateInBatches(table, nextID, now, ds, batchSize, fail)
        IN  /\ res = NoRes
            /\ nextID + Len(ds) <= MaxID + 1
            /\ table' = r.table
            /\ nextID' = r.nextID
            /\ res' = [NoRes EXCEPT !.op = "Base.CreateInBatches",
                           !.pageSize = batchSize, !.err = r.err,
                           !.cause = r.cause, !.rows = r.values]
            /\ UNCHANGED <<now, cvars, hvars, pvars, rvars>>

RepoUpdate ==
    \E id \in 0..MaxID, d \in DemoInputs, fail \in BOOLEAN :
        LET r == BaseUpdate(table, nextID, now, SaveValue(table, id, d), fail)
        IN  /\ res = NoRes
            /\ r.nextID <= MaxID + 1
            /\ table' = r.table
            /\ nextID' = r.nextID
            /\ res' = [NoRes EXCEPT !.op = "Base.Update", !.id = id, !.in = d,
                           !.err = r.err, !.cause = r.cause, !.row = r.value]
            /\ UNCHANGED <<now, cvars, hvars, pvars, rvars>>

RepoUpdateFields ==
    \E q \in Queries, fail \in BOOLEAN :
        LET r == BaseUpdateFields(table, now, q, 1, fail)
        IN  /\ res = NoRes
            /\ table' = r.table
            /\ res' = [NoRes EXCEPT !.op = "Base.UpdateFields", !.q = q,
                           !.err = r.err, !.cause = r.cause,
                           !.affected = r.affected]
            /\ UNCHANGED <<nextID, now, cvars, hvars, pvars, rvars>>

RepoUpdateColumn ==
    \E q \in Queries, fail \in BOOLEAN :
        LET r == BaseUpdateColumn(table, now, q, 1, fail)
        IN  /\ res = NoRes
            /\ table' = r.table
            /\ res' = [NoRes EXCEPT !.op = "Base.UpdateColumn", !.q = q,
                           !.err = r.err, !.cause = r.cause,
                           !.affected = r.affected]
            /\ UNCHANGED <<nextID, now, cvars, hvars, pvars, rvars>>

RepoDelete ==
    \E id \in 0..MaxID, fail \in BOOLEAN :
        LET r == BaseDelete(table, id, fail)
        IN  /\ res = NoRes
            /\ table' = r.table
            /\ res' = [NoRes EXCEPT !.op = "Base.Delete", !.id = id,
                           !.err = r.err, !.cause = r.cause,
                           !.affected = r.affected]
            /\ UNCHANGED <<nextID, now, cvars, hvars, pvars, rvars>>

RepoDeleteWhere ==
    \E q \in Queries, fail \in BOOLEAN :
        LET r == BaseDeleteWhere(table, q, fail)
        IN  /\ res = NoRes
            /\ table' = r.table
            /\ res' = [NoRes EXCEPT !.op = "Base.DeleteWhere", !.q = q,
                           !.err = r.err, !.cause = r.cause,
                           !.affected = r.affected]
            /\ UNCHANGED <<nextID, now, cvars, hvars, pvars, rvars>>

RepoTransaction ==
    /\ res = NoRes
    /\ \E fn \in TxFns, fail \in Failures :
          \E r \in {BaseTransaction(table, nextID, now, fn,
                                    fail = "first", fail = "second")} :
              /\ r.nextID <= MaxID + 1
              /\ table' = r.table
              /\ nextID' = r.nextID
              /\ res' = [NoRes EXCEPT !.op = "Base.Transaction",
                             !.fn = fn.writes, !.fnErr = r.fnErr,
                             !.ran = r.ran, !.err = r.err, !.cause = r.cause,
                             !.rows = r.values]
              /\ UNCHANGED <<now, cvars, hvars, pvars, rvars>>

RepoExec ==
    \E sql \in ExecStatements, fail \in BOOLEAN :
        LET r == BaseExec(table, sql, fail)
        IN  /\ res = NoRes
            /\ table' = r.table
            /\ res' = [NoRes EXCEPT !.op = "Base.Exec", !.err = r.err,
                           !.cause = r.cause, !.affected = r.affected]
            /\ UNCHANGED <<nextID, now, cvars, hvars, pvars, rvars>>

RepoRaw ==
    \E sql \in RawStatements, fail \in BOOLEAN :
        LET r == BaseRaw(table, sql, fail)
        IN  /\ res = NoRes
            /\ res' = [NoRes EXCEPT !.op = "Base.Raw", !.err = r.err,
                           !.cause = r.cause, !.total = r.total]
            /\ UNCHANGED <<table, nextID, now, cvars, hvars, pvars, rvars>>

\* The caller takes the result.
Return ==
    /\ res # NoRes
    /\ res' = NoRes
    /\ UNCHANGED <<table, nextID, now, cvars, hvars, pvars, rvars>>

DemoRepoFindByID ==
    \E id \in 0..MaxID, fail \in BOOLEAN :
        LET r == DemoFindByID(table, id, fail)
        IN  /\ res = NoRes
            /\ res' = [NoRes EXCEPT !.op = "Demo.FindByID", !.id = id,
                           !.err = r.err, !.baseErr = r.baseErr,
                           !.cause = r.cause, !.row = r.row]
            /\ UNCHANGED <<table, nextID, now, cvars, hvars, pvars, rvars>>

DemoRepoFindAll ==
    \E fail \in BOOLEAN :
        LET r == DemoFindAll(table, fail)
        IN  /\ res = NoRes
            /\ res' = [NoRes EXCEPT !.op = "Demo.FindAll", !.q = QueryAll,
                           !.err = r.err, !.cause = r.cause, !.rows = r.rows]
            /\ UNCHANGED <<table, nextID, now, cvars, hvars, pvars, rvars>>

DemoRepoFindPage ==
    \E page \in Pages, pageSize \in Pages, fail \in Failures :
        LET r == DemoFindPage(table, page, pageSize,
                              fail = "first", fail = "second")
        IN  /\ res = NoRes
            /\ res' = [NoRes EXCEPT !.op = "Demo.FindPage", !.q = QueryAll,
                           !.page = page, !.pageSize = pageSize,
                           !.err = r.err, !.cause = r.cause, !.rows = r.rows,
                           !.total = r.total]
            /\ UNCHANGED <<table, nextID, now, cvars, hvars, pvars, rvars>>

DemoRepoCreate ==
    \E d \in DemoInputs, fail \in BOOLEAN :
        LET r == DemoCreate(table, nextID, now, d, fail)
        IN  /\ res = NoRes
            /\ r.nextID <= MaxDemos + 1
            /\ table' = r.table
            /\ nextID' = r.nextID
            /\ res' = [NoRes EXCEPT !.op = "Demo.Create", !.in = d,
                           !.err = r.err, !.cause = r.cause, !.row = r.value]
            /\ UNCHANGED <<now, cvars, hvars, pvars, rvars>>

DemoRepoUpdate ==
    \E id \in 0..MaxDemos, d \in DemoInputs, fail \in BOOLEAN :
        LET r == DemoUpdate(table, nextID, now, SaveValue(table, id, d), fail)
        IN  /\ res = NoRes
            /\ r.nextID <= MaxDemos + 1
            /\ table' = r.table
            /\ nextID' = r.nextID
            /\ res' = [NoRes EXCEPT !.op = "Demo.Update", !.id = id, !.in = d,
                           !.err = r.err, !.cause = r.cause, !.row = r.value]
            /\ UNCHANGED <<now, cvars, hvars, pvars, rvars>>

DemoRepoDelete ==
    \E id \in 0..MaxID, fail \in BOOLEAN :
        LET r == DemoDelete(table, id, fail)
        IN  /\ res = NoRes
            /\ table' = r.table
            /\ res' = [NoRes EXCEPT !.op = "Demo.Delete", !.id = id,
                           !.err = r.err, !.cause = r.cause,
                           !.affected = r.affected]
            /\ UNCHANGED <<nextID, now, cvars, hvars, pvars, rvars>>

SvcGetByID ==
    \E id \in 0..MaxID, fail \in BOOLEAN :
        LET r == ServiceGetByID(table, id, fail)
        IN  /\ res = NoRes
            /\ res' = [NoRes EXCEPT !.op = "Service.GetByID", !.id = id,
                           !.err = r.err, !.cause = r.cause, !.row = r.row,
                           !.logs = r.logs]
            /\ UNCHANGED <<table, nextID, now, cvars, hvars, pvars, rvars>>

SvcGetAll ==
    \E fail \in BOOLEAN :
        LET r == ServiceGetAll(table, fail)
        IN  /\ res = NoRes
            /\ res' = [NoRes EXCEPT !.op = "Service.GetAll", !.err = r.err,
                           !.cause = r.cause, !.rows = r.rows, !.logs = r.logs]
            /\ UNCHANGED <<table, nextID, now, cvars, hvars, pvars, rvars>>

SvcCreate ==
    \E d \in DemoInputs, fail \in BOOLEAN :
        LET r == ServiceCreate(table, nextID, now, d, fail)
        IN  /\ res = NoRes
            /\ r.nextID <= MaxDemos + 1
            /\ table' = r.table
            /\ nextID' = r.nextID
            /\ res' = [NoRes EXCEPT !.op = "Service.Create", !.in = d,
                           !.err = r.err, !.cause = r.cause, !.row = r.value,
                           !.logs = r.logs]
            /\ UNCHANGED <<now, cvars, hvars, pvars, rvars>>

\* What Update is called with: the inputs above, and one carrying an ID of
\* its own.
UpdateInputs == DemoInputs \cup {[DemoA EXCEPT !.ID = 2]}

SvcUpdate ==
    \E id \in 0..MaxID, d \in UpdateInputs, fail \in Failures :
        LET r == ServiceUpdate(table, nextID, now, id, d,
                               fail = "first", fail = "second")
        IN  /\ res = NoRes
            /\ table' = r.table
            /\ nextID' = r.nextID
            /\ res' = [NoRes EXCEPT !.op = "Service.Update", !.id = id,
                           !.in = d, !.err = r.err, !.cause = r.cause,
                           !.row = r.value, !.logs = r.logs]
            /\ UNCHANGED <<now, cvars, hvars, pvars, rvars>>

SvcDelete ==
    \E id \in 0..MaxID, fail \in Failures :
        LET r == ServiceDelete(table, id, fail = "first", fail = "second")
        IN  /\ res = NoRes
            /\ table' = r.table
            /\ res' = [NoRes EXCEPT !.op = "Service.Delete", !.id = id,
                           !.err = r.err, !.cause = r.cause,
                           !.affected = r.affected, !.logs = r.logs]
            /\ UNCHANGED <<nextID, now, cvars, hvars, pvars, rvars>>

ServiceNext ==
    \/ Return
    \/ Tick
    \/ SvcGetByID
    \/ SvcGetAll
    \/ SvcCreate
    \/ SvcUpdate
    \/ SvcDelete

DemoNext ==
    \/ ServiceNext
    \/ DemoRepoFindByID
    \/ DemoRepoFindAll
    \/ DemoRepoCreate
    \/ DemoRepoUpdate
    \/ DemoRepoDelete

RepoNext ==
    \/ Return
    \/ RepoFindByID
    \/ RepoFindOne
    \/ RepoFindAll
    \/ RepoFindPage
    \/ RepoCount
    \/ RepoExists
    \/ RepoCreate
    \/ RepoCreateInBatches
    \/ RepoUpdate
    \/ RepoUpdateFields
    \/ RepoUpdateColumn
    \/ RepoDelete
    \/ RepoDeleteWhere
    \/ RepoTransaction
    \/ RepoExec
    \/ RepoRaw
    \/ DemoRepoFindPage

(***************************************************************************)
(* Properties of the cache facade, checked under SpecCache.                *)
(***************************************************************************)

\* C1: when a Remember whose lookup missed is directly followed by a Remember
\* of the same key whose lookup hits, the callback ran exactly once over the
\* two calls and both calls returned the value that one run computed.
C1_RememberMissThenHit ==
    (/\ cres.op = "Remember" /\ cprev.op = "Remember"
     /\ cprev.key = cres.key
     /\ cprev.get = "miss" /\ cres.get = "hit")
        => /\ cprev.computeCalls + cres.computeCalls = 1
           /\ cprev.value = cprev.cbValue
           /\ cres.value = cprev.cbValue

C1_Witness ==
    /\ cres.op = "Remember" /\ cprev.op = "Remember"
    /\ cprev.key = cres.key
    /\ cprev.get = "miss" /\ cres.get = "hit"
    /\ cres.value = "v1"

\* C2: a Remember whose callback fails returns exactly the callback's error
\* and the empty string, issues no Set, and leaves every key of the cache as
\* it was.
C2_ComputeErrorPropagated ==
    [][(cres'.op = "Remember" /\ cres'.computeCalls = 1 /\ cres'.cb.err # Nil)
          => /\ cres'.err = cres'.cb.err
             /\ cres'.value = ""
             /\ cres'.sets = << >>
             /\ store' = store]_cvars

C2_Witness ==
    /\ cres.op = "Remember"
    /\ cres.cb = [value |-> "v1", err |-> <<"load failed", "ErrNotFound">>]
    /\ cres.err = <<"load failed", "ErrNotFound">>
    /\ \E k \in Keys : store[k].present

\* C3: a Remember whose lookup fails, whose callback succeeds and whose
\* write-back fails returns the computed value and a nil error.
C3_SetFailureSwallowed ==
    (/\ cres.op = "Remember" /\ cres.computeCalls = 1
     /\ cres.cb.err = Nil /\ cres.setFailed)
        => /\ cres.value = cres.cb.value
           /\ cres.err = Nil

C3_Witness ==
    /\ cres.op = "Remember" /\ cres.computeCalls = 1
    /\ cres.cb.err = Nil /\ cres.setFailed
    /\ cres.value = "v1"
    /\ ~store[cres.key].present

\* The message each BaseRepository operation wraps its failures with; FindPage
\* has one for each of its two queries, Transaction has none.
OpMessages(op) ==
    CASE op = "Base.FindByID" -> {"query by id failed"}
      [] op = "Base.FindOne" -> {"query one failed"}
      [] op = "Base.FindAll" -> {"query all failed"}
      [] op = "Base.FindPage" -> {"count failed", "query page failed"}
      [] op = "Base.Count" -> {"count failed"}
      [] op = "Base.Exists" -> {"check exists failed"}
      [] op = "Base.Create" -> {"create failed"}
      [] op = "Base.CreateInBatches" -> {"create in batches failed"}
      [] op = "Base.Update" -> {"update failed"}
      [] op = "Base.UpdateFields" -> {"update fields failed"}
      [] op = "Base.UpdateColumn" -> {"update column failed"}
      [] op = "Base.Delete" -> {"delete failed"}
      [] op = "Base.DeleteWhere" -> {"delete where failed"}
      [] op = "Base.Exec" -> {"exec sql failed"}
      [] op = "Base.Raw" -> {"raw query failed"}
      [] OTHER -> {}

BaseOps ==
    {"Base.FindByID", "Base.FindOne", "Base.FindAll", "Base.FindPage",
     "Base.Count", "Base.Exists", "Base.Create", "Base.CreateInBatches",
     "Base.Update", "Base.UpdateFields", "Base.UpdateColumn", "Base.Delete",
     "Base.DeleteWhere", "Base.Transaction", "Base.Exec", "Base.Raw"}

\* C4: DemoRepository.FindByID, and BaseRepository.FindByID under it, called
\* with an ID that has no row (the query runs and matches nothing) return an
\* error, and errors.Is(err, ErrNotFound) holds for the error of each: it is
\* neither nil nor an error outside the Not-Found kind.
C4_FindByIDNotFound ==
    (/\ res.op = "Demo.FindByID"
     /\ ~HasRow(table, res.id)
     /\ res.cause # ErrDriver)
        => /\ res.baseErr # Nil
           /\ Is(res.baseErr, ErrNotFound)
           /\ res.err # Nil
           /\ Is(res.err, ErrNotFound)
           /\ res.row = NoRow

\* A lookup of ID 2 while only row 1 is stored.
C4_Witness ==
    /\ res.op = "Demo.FindByID"
    /\ res.id = 2
    /\ HasRow(table, 1)
    /\ ~HasRow(table, 2)
    /\ res.cause = ErrRecordNotFound
    /\ res.err = <<"demo not found, id: 2", "ErrNotFound">>

\* C5: after a Delete(id) that returned nil (DemoRepository.Delete, or
\* DemoService.Delete through it), FindByID(id) on the table as the delete
\* left it returns the Not-Found kind: the row is gone, not marked.
C5_DeleteThenFind ==
    (/\ res.op \in {"Demo.Delete", "Service.Delete"}
     /\ res.err = Nil)
        => /\ ~HasRow(table, res.id)
           /\ Is(BaseFindByID(table, res.id, FALSE).err, ErrNotFound)
           /\ Is(DemoFindByID(table, res.id, FALSE).err, ErrNotFound)
           /\ Is(ServiceGetByID(table, res.id, FALSE).err, ErrNotFound)

\* A delete that removed one row while another row stays.
C5_Witness ==
    /\ res.op = "Demo.Delete"
    /\ res.err = Nil
    /\ res.affected = 1
    /\ res.id = 1
    /\ HasRow(table, 2)
    /\ DemoFindByID(table, 1, FALSE).err = <<"demo not found, id: 1", "ErrNotFound">>

\* C6: for every record given to Create (any title, content and status, 0
\* included), FindByID with the ID Create assigned returns a record with the
\* title, content and status passed in, CreatedAt and UpdatedAt non-zero and
\* UpdatedAt >= CreatedAt.
C6_CreateRoundTrip ==
    (/\ res.op = "Demo.Create"
     /\ res.err = Nil)
        => LET f == DemoFindByID(table, res.row.ID, FALSE)
           IN  /\ f.err = Nil
               /\ f.row.Title = res.in.Title
               /\ f.row.Content = res.in.Content
               /\ f.row.Status = res.in.Status
               /\ f.row.CreatedAt # 0
               /\ f.row.UpdatedAt # 0
               /\ f.row.UpdatedAt >= f.row.CreatedAt

\* C7: FindPage with page >= 1 and pageSize >= 1 over the N rows that match
\* returns total = N and the rows at positions (page-1)*pageSize ..
\* (page-1)*pageSize + pageSize - 1 of the matching rows in primary key
\* order: a matching row is on the page exactly when its position divided by
\* pageSize is page - 1, so the pages are disjoint and cover the matching
\* rows; a page past the end is empty, nothing is clamped.
C7_FindPage ==
    (/\ res.op \in {"Base.FindPage", "Demo.FindPage"}
     /\ res.err = Nil)
        => LET M == {i \in IDs : table[i] # NoRow /\
                        (res.q.kind = "status" => table[i].Status = res.q.arg)}
               Pos(i) == Cardinality({j \in M : j < i})
               Page == {i \in M : Pos(i) \div res.pageSize = res.page - 1}
           IN  /\ res.total = Cardinality(M)
               /\ Len(res.rows) = Cardinality(Page)
               /\ Len(res.rows) <= res.pageSize
               /\ \A k \in 1..Len(res.rows) :
                     /\ res.rows[k].ID \in Page
                     /\ res.rows[k] = table[res.rows[k].ID]
                     /\ Pos(res.rows[k].ID) = (res.page - 1) * res.pageSize + k - 1

\* Three rows, pageSize 2: page 2 holds the one row left, total is 3.
C7_Witness ==
    /\ res.op = "Base.FindPage"
    /\ res.err = Nil
    /\ res.q = QueryNil
    /\ \A i \in 1..3 : HasRow(table, i)
    /\ res.page = 2
    /\ res.pageSize = 2
    /\ res.total = 3
    /\ Len(res.rows) = 1
    /\ res.rows[1].ID = 3
    /\ BaseFindPage(table, 1, 2, QueryNil, FALSE, FALSE).total = 3
    /\ Len(BaseFindPage(table, 1, 2, QueryNil, FALSE, FALSE).rows) = 2

\* C8: Transaction(fn) is atomic.  When fn returns an error, the table after
\* the call is the table before it and Transaction returns an error.  When fn
\* returns nil and Transaction returns nil, every write of fn is in the table
\* (a row holds the last value written to it) and no other row changed.  A
\* transaction that returns an error for any reason leaves the table as it was.
C8_TransactionAtomic ==
    [][res'.op = "Base.Transaction" =>
          /\ res'.fnErr # Nil => (table' = table /\ res'.err # Nil)
          /\ res'.err # Nil => table' = table
          /\ (res'.ran /\ res'.fnErr = Nil /\ res'.err = Nil) =>
                /\ Len(res'.rows) = Len(res'.fn)
                /\ \A k \in 1..Len(res'.rows) :
                      (\A j \in (k + 1)..Len(res'.rows) :
                           res'.rows[j].ID # res'.rows[k].ID)
                          => BaseFindByID(table', res'.rows[k].ID, FALSE).row
                                 = res'.rows[k]
                /\ \A i \in IDs :
                      (\A k \in 1..Len(res'.rows) : res'.rows[k].ID # i)
                          => table'[i] = table[i]]_dvars

\* A body that wrote a row and then returned an error: the row is not there.
C8_Witness ==
    /\ res.op = "Base.Transaction"
    /\ res.ran
    /\ res.fnErr = ErrBusiness
    /\ res.err = ErrBusiness
    /\ Len(res.rows) = 2
    /\ ~HasRow(table, res.rows[1].ID)
    /\ HasRow(table, 1)

C10_TitleNeverEmpty ==
    /\ \A i \in IDs : table[i] # NoRow => table[i].Title # ""
    /\ (res.op \in {"Service.Create", "Service.Update"} /\ res.in.Title = "")
           => res.err # Nil


(***************************************************************************)
(* The response envelope (pkg/web/response.go) and the Demo controller     *)
(* (internal/controller/demo_controller.go).  A message is the sequence of *)
(* the strings concatenated into it.                                       *)
(***************************************************************************)
DataNone == [kind |-> "none", demo |-> NoRow, demos |-> << >>]

DataDemo(d) == [kind |-> "demo", demo |-> d, demos |-> << >>]

DataDemos(ds) == [kind |-> "demos", demo |-> NoRow, demos |-> ds]

\* web.Map{"status": "ok"}
DataStatusOk == [kind |-> "status ok", demo |-> NoRow, demos |-> << >>]

\* c.JSON(status, Response{Code, Message, Data}): the status line and the
\* envelope as the body.
JSON(status, code, message, data) ==
    [status |-> status, envelope |-> TRUE, code |-> code, message |-> message,
     data |-> data]

\* c.Status(status), c.AbortWithStatus(status): a status line without a body.
StatusOnly(status) ==
    [status |-> status, envelope |-> FALSE, code |-> 0, message |-> << >>,
     data |-> DataNone]

Success(data) == JSON(200, 200, <<"success">>, data)

SuccessWithMessage(message, data) == JSON(200, 200, message, data)

Error(httpStatus, code, message) == JSON(httpStatus, code, message, DataNone)

BadRequest(message) == JSON(400, 400, message, DataNone)

NotFound(message) == JSON(404, 404, message, DataNone)

\* InternalError answering 500 with the code of a success in the envelope.
InternalErrorCode200(message) == JSON(500, 200, message, DataNone)

InternalError(message) == JSON(500, 500, message, DataNone)

\* The decimal digits and their values.
DigitValue ==
    [c \in {"0", "1", "2", "3", "4", "5", "6", "7", "8", "9"} |->
        CASE c = "0" -> 0 [] c = "1" -> 1 [] c = "2" -> 2 [] c = "3" -> 3
          [] c = "4" -> 4 [] c = "5" -> 5 [] c = "6" -> 6 [] c = "7" -> 7
          [] c = "8" -> 8 [] c = "9" -> 9]

\* 1<<32 - 1 as its digits: the largest value of bitSize 32.
MaxUint32Digits == <<4, 2, 9, 4, 9, 6, 7, 2, 9, 5>>

RECURSIVE StripZeros(_)
StripZeros(ds) ==
    IF ds # << >> /\ Head(ds) = 0 THEN StripZeros(Tail(ds)) ELSE ds

RECURSIVE DigitsLess(_, _)
\* a < b for digit sequences of the same length.
DigitsLess(a, b) ==
    IF a = << >> THEN FALSE
    ELSE IF Head(a) # Head(b) THEN Head(a) < Head(b)
    ELSE DigitsLess(Tail(a), Tail(b))

\* The number exceeds 1<<32 - 1.
OutOfRange32(ds) ==
    LET n == StripZeros(ds)
    IN  \/ Len(n) > Len(MaxUint32Digits)
        \/ Len(n) = Len(MaxUint32Digits) /\ DigitsLess(MaxUint32Digits, n)

RECURSIVE DigitsValue(_, _)
DigitsValue(ds, acc) ==
    IF ds = << >> THEN acc ELSE DigitsValue(Tail(ds), acc * 10 + Head(ds))

ErrSyntax == <<"strconv.ParseUint: invalid syntax">>

ErrRange == <<"strconv.ParseUint: value out of range">>

\* The same as ParseUint, but a sign before the digits is accepted and
\* dropped.
ParseUintSigned(s) ==
    LET u == IF s # << >> /\ Head(s) \in {"+", "-"} THEN Tail(s) ELSE s
    IN  IF u = << >> \/ \E i \in 1..Len(u) : u[i] \notin DOMAIN DigitValue
        THEN [err |-> ErrSyntax, value |-> 0]
        ELSE LET ds == [i \in 1..Len(u) |-> DigitValue[u[i]]]
             IN  IF OutOfRange32(ds) THEN [err |-> ErrRange, value |-> 0]
                 ELSE [err |-> Nil, value |-> DigitsValue(StripZeros(ds), 0)]

\* strconv.ParseUint(s, 10, 32) on the characters of s: the empty string and
\* any character that is not a digit (a sign included) are a syntax error, a
\* number above 1<<32 - 1 is a range error.
ParseUint(s) ==
    IF s = << >> \/ \E i \in 1..Len(s) : s[i] \notin DOMAIN DigitValue
    THEN [err |-> ErrSyntax, value |-> 0]
    ELSE LET ds == [i \in 1..Len(s) |-> DigitValue[s[i]]]
         IN  IF OutOfRange32(ds) THEN [err |-> ErrRange, value |-> 0]
             ELSE [err |-> Nil, value |-> DigitsValue(StripZeros(ds), 0)]

\* The :id path parameters sent: numbers with and without a row, a number
\* written with a leading zero, text, signed numbers, 1<<32, the empty
\* string and 1<<31 - 2.
IDParams ==
    {<<"1">>, <<"2">>, <<"0">>, <<"0", "1">>, <<"a", "b", "c">>, <<"-", "1">>,
     <<"+", "1">>, <<"4", "2", "9", "4", "9", "6", "7", "2", "9", "6">>,
     << >>, <<"2", "1", "4", "7", "4", "8", "3", "6", "4", "6">>}

\* A request body: text that is not JSON, or a JSON object; a field left out
\* of the object has its zero value after decoding.
BodyMalformed == [json |-> FALSE, title |-> "", content |-> "", status |-> 0]

Body(title, content, status) ==
    [json |-> TRUE, title |-> title, content |-> content, status |-> status]

Bodies ==
    {BodyMalformed, Body("", "x", 1), Body("A", "x", 1), Body("B", "", 0)}

ErrDecode == "invalid character 'x' looking for beginning of value"

ErrRequired(request) ==
    IF request = "CreateRequest"
    THEN "Key: 'CreateRequest.Title' Error:Field validation for 'Title' failed on the 'required' tag"
    ELSE "Key: 'UpdateRequest.Title' Error:Field validation for 'Title' failed on the 'required' tag"

\* ctx.ShouldBindJSON(&req): decode, then validate binding:"required" on
\* Title, which refuses the zero value.
ShouldBindJSON(body, request) ==
    IF ~body.json THEN [err |-> <<ErrDecode>>, req |-> body]
    ELSE IF body.title = "" THEN [err |-> <<ErrRequired(request)>>, req |-> body]
    ELSE [err |-> Nil, req |-> body]

\* &model.Demo{Title: req.Title, Content: req.Content, Status: req.Status}
DemoOf(req) == Demo(0, req.title, req.content, req.status, 0, 0)

\* What a handler did: the response, the table after it, the error the
\* service returned (svcCalled tells whether it was called) and its log.
Handled(response, t, next, svcCalled, svcErr, logs) ==
    [response |-> response, table |-> t, nextID |-> next,
     svcCalled |-> svcCalled, svcErr |-> svcErr, logs |-> logs, svcID |-> 0]

\* The handler called the service with uint(id).
CalledWith(id, h) == [h EXCEPT !.svcID = id]

MsgInvalidID == <<"invalid id">>

MsgDemoNotFound == <<"demo not found">>

\* "invalid request: " + err.Error()
MsgInvalidRequest(err) == <<"invalid request: ">> \o err

\* In the handlers below the service is called once and its result r is what
\* the handler answers from.

\* GetByID answering 404 to every error of the service.
ControllerGetByIDAlwaysNotFound(t, next, idParam, fail) ==
    LET p == ParseUint(idParam)
    IN  IF p.err # Nil
        THEN Handled(BadRequest(MsgInvalidID), t, next, FALSE, Nil, << >>)
        ELSE CalledWith(p.value, CHOOSE h \in
               {IF r.err # Nil
                THEN Handled(NotFound(MsgDemoNotFound), t, next, TRUE, r.err,
                             r.logs)
                ELSE Handled(Success(DataDemo(r.row)), t, next, TRUE, Nil,
                             r.logs)
                : r \in {ServiceGetByID(t, p.value, fail)}} : TRUE)

ControllerGetByID(t, next, idParam, fail) ==
    LET p == ParseUint(idParam)
    IN  IF p.err # Nil
        THEN Handled(BadRequest(MsgInvalidID), t, next, FALSE, Nil, << >>)
        ELSE CalledWith(p.value, CHOOSE h \in
               {IF r.err # Nil
                THEN Handled(IF Is(r.err, ErrNotFound)
                             THEN NotFound(MsgDemoNotFound)
                             ELSE InternalError(<<"get demo failed">>),
                             t, next, TRUE, r.err, r.logs)
                ELSE Handled(Success(DataDemo(r.row)), t, next, TRUE, Nil,
                             r.logs)
                : r \in {ServiceGetByID(t, p.value, fail)}} : TRUE)

ControllerGetAll(t, next, fail) ==
    CHOOSE h \in
      {IF r.err # Nil
       THEN Handled(InternalError(<<"get demos failed">>), t, next, TRUE,
                    r.err, r.logs)
       ELSE Handled(Success(DataDemos(r.rows)), t, next, TRUE, Nil, r.logs)
       : r \in {ServiceGetAll(t, fail)}} : TRUE

\* Create answering with the record of the request instead of the record the
\* service filled in.
ControllerCreateEchoRequest(t, next, clock, body, fail) ==
    LET b == ShouldBindJSON(body, "CreateRequest")
    IN  IF b.err # Nil
        THEN Handled(BadRequest(MsgInvalidRequest(b.err)), t, next, FALSE, Nil,
                     << >>)
        ELSE CHOOSE h \in
               {IF r.err # Nil
                THEN Handled(InternalError(<<"create demo failed">>), r.table,
                             r.nextID, TRUE, r.err, r.logs)
                ELSE Handled(SuccessWithMessage(<<"demo created successfully">>,
                                                DataDemo(DemoOf(b.req))),
                             r.table, r.nextID, TRUE, Nil, r.logs)
                : r \in {ServiceCreate(t, next, clock, DemoOf(b.req), fail)}}
               : TRUE

ControllerCreate(t, next, clock, body, fail) ==
    LET b == ShouldBindJSON(body, "CreateRequest")
    IN  IF b.err # Nil
        THEN Handled(BadRequest(MsgInvalidRequest(b.err)), t, next, FALSE, Nil,
                     << >>)
        ELSE CHOOSE h \in
               {IF r.err # Nil
                THEN Handled(InternalError(<<"create demo failed">>), r.table,
                             r.nextID, TRUE, r.err, r.logs)
                ELSE Handled(SuccessWithMessage(<<"demo created successfully">>,
                                                DataDemo(r.value)),
                             r.table, r.nextID, TRUE, Nil, r.logs)
                : r \in {ServiceCreate(t, next, clock, DemoOf(b.req), fail)}}
               : TRUE

\* Update putting the text of the service's error into its 500 message.
ControllerUpdateLeaky(t, next, clock, idParam, body, findFail, saveFail) ==
    LET p == ParseUint(idParam)
        b == ShouldBindJSON(body, "UpdateRequest")
    IN  IF p.err # Nil
        THEN Handled(BadRequest(MsgInvalidID), t, next, FALSE, Nil, << >>)
        ELSE IF b.err # Nil
        THEN Handled(BadRequest(MsgInvalidRequest(b.err)), t, next, FALSE, Nil,
                     << >>)
        ELSE CalledWith(p.value, CHOOSE h \in
               {IF r.err # Nil
                THEN Handled(IF Is(r.err, ErrNotFound)
                             THEN NotFound(MsgDemoNotFound)
                             ELSE InternalError(<<"update demo failed: ">>
                                                    \o r.err),
                             r.table, r.nextID, TRUE, r.err, r.logs)
                ELSE Handled(SuccessWithMessage(<<"demo updated successfully">>,
                                                DataNone),
                             r.table, r.nextID, TRUE, Nil, r.logs)
                : r \in {ServiceUpdate(t, next, clock, p.value, DemoOf(b.req),
                                       findFail, saveFail)}} : TRUE)

ControllerUpdate(t, next, clock, idParam, body, findFail, saveFail) ==
    LET p == ParseUint(idParam)
        b == ShouldBindJSON(body, "UpdateRequest")
    IN  IF p.err # Nil
        THEN Handled(BadRequest(MsgInvalidID), t, next, FALSE, Nil, << >>)
        ELSE IF b.err # Nil
        THEN Handled(BadRequest(MsgInvalidRequest(b.err)), t, next, FALSE, Nil,
                     << >>)
        ELSE CalledWith(p.value, CHOOSE h \in
               {IF r.err # Nil
                THEN Handled(IF Is(r.err, ErrNotFound)
                             THEN NotFound(MsgDemoNotFound)
                             ELSE InternalError(<<"update demo failed">>),
                             r.table, r.nextID, TRUE, r.err, r.logs)
                ELSE Handled(SuccessWithMessage(<<"demo updated successfully">>,
                                                DataNone),
                             r.table, r.nextID, TRUE, Nil, r.logs)
                : r \in {ServiceUpdate(t, next, clock, p.value, DemoOf(b.req),
                                       findFail, saveFail)}} : TRUE)

ControllerDelete(t, next, idParam, findFail, deleteFail) ==
    LET p == ParseUint(idParam)
    IN  IF p.err # Nil
        THEN Handled(BadRequest(MsgInvalidID), t, next, FALSE, Nil, << >>)
        ELSE CalledWith(p.value, CHOOSE h \in
               {IF r.err # Nil
                THEN Handled(IF Is(r.err, ErrNotFound)
                             THEN NotFound(MsgDemoNotFound)
                             ELSE InternalError(<<"delete demo failed">>),
                             r.table, next, TRUE, r.err, r.logs)
                ELSE Handled(SuccessWithMessage(<<"demo deleted successfully">>,
                                                DataNone),
                             r.table, next, TRUE, Nil, r.logs)
                : r \in {ServiceDelete(t, p.value, findFail, deleteFail)}}
               : TRUE)

\* pkg/web/handlers.go; the two messages are written by their code points.
MsgInterfaceNotFound == <<"U+63A5 U+53E3 U+4E0D U+5B58 U+5728">>

MsgMethodNotAllowed == <<"U+8BF7 U+6C42 U+65B9 U+6CD5 U+4E0D U+5141 U+8BB8">>

HealthHandler(t, next) ==
    Handled(Success(DataStatusOk), t, next, FALSE, Nil, << >>)

NotFoundHandler(t, next) ==
    Handled(NotFound(MsgInterfaceNotFound), t, next, FALSE, Nil, << >>)

MethodNotAllowedHandler(t, next) ==
    Handled(Error(405, 405, MsgMethodNotAllowed), t, next, FALSE, Nil, << >>)

(***************************************************************************)
(* Middleware (internal/middleware) and the router (provideRouter).        *)
(***************************************************************************)
\* Response headers: "" where the header is not set.
NoHeaders ==
    [requestID |-> "", allowOrigin |-> "", allowMethods |-> "",
     allowHeaders |-> "", allowCredentials |-> "", maxAge |-> ""]

\* uuid.New().String(): the identifiers the generator may return.
UUIDs == {"uuid-1", "uuid-2"}

\* The X-Request-ID and Origin headers a client sends ("" when it sends none).
RequestIDs == {"", "req-1"}

Origins == {"", "http://localhost:3000", "http://evil.example"}

\* RequestIDMiddleware.Handle: what it stores in the context, the response
\* header it sets and the calls it makes, in order.
\* The middleware generating an identifier whatever the request carries.
RequestIDHandleAlwaysNew(inbound, uuid) ==
    [ctxRequestID |-> uuid,
     header |-> uuid,
     steps |-> <<"ctx.Set", "ctx.Header", "ctx.Next">>,
     aborted |-> FALSE]

RequestIDHandle(inbound, uuid) ==
    LET requestID == IF inbound = "" THEN uuid ELSE inbound
    IN  [ctxRequestID |-> requestID,
         header |-> requestID,
         steps |-> <<"ctx.Set", "ctx.Header", "ctx.Next">>,
         aborted |-> FALSE]

\* config.CORSConfig values: disabled, enabled with an empty list, with the
\* wildcard, with one origin.
CORSConfigs ==
    {[Enabled |-> FALSE, AllowOrigins |-> <<"http://localhost:3000">>],
     [Enabled |-> TRUE, AllowOrigins |-> << >>],
     [Enabled |-> TRUE, AllowOrigins |-> <<"*">>],
     [Enabled |-> TRUE, AllowOrigins |-> <<"http://localhost:3000">>],
     [Enabled |-> TRUE,
      AllowOrigins |-> <<"http://localhost:3000", "http://localhost:8080">>],
     [Enabled |-> TRUE, AllowOrigins |-> <<"http://localhost:8080", "*">>]}

\* NewCORSMiddleware: an empty list of origins becomes the wildcard.
NewCORSMiddleware(allowOrigins) ==
    [allowOrigins |-> IF allowOrigins = << >> THEN <<"*">> ELSE allowOrigins,
     allowMethods |-> "GET, POST, PUT, DELETE, PATCH, OPTIONS",
     allowHeaders |-> "Content-Type, Authorization, X-Request-ID"]

NewDefaultCORSMiddleware == NewCORSMiddleware(<< >>)

\* NewMiddleware: the CORS middleware of the configuration, the default one
\* when CORS is not enabled.
NewMiddleware(cfg) ==
    [RequestID |-> "RequestID",
     CORS |-> IF cfg.Enabled THEN NewCORSMiddleware(cfg.AllowOrigins)
              ELSE NewDefaultCORSMiddleware]

\* The same as isOriginAllowed, but every origin a request names is allowed.
isOriginAllowedAny(m, origin) == origin # ""

isOriginAllowed(m, origin) ==
    /\ origin # ""
    /\ \E i \in 1..Len(m.allowOrigins) :
          m.allowOrigins[i] = "*" \/ m.allowOrigins[i] = origin

\* CORSMiddleware.Handle: the headers it sets; an OPTIONS request is
\* answered with AbortWithStatus(204), any other goes on with ctx.Next().
CORSHandle(m, origin, method) ==
    [headers |->
        [NoHeaders EXCEPT
            !.allowOrigin =
                IF isOriginAllowed(m, origin) THEN origin
                ELSE IF Len(m.allowOrigins) = 1 /\ m.allowOrigins[1] = "*"
                THEN "*" ELSE "",
            !.allowMethods = m.allowMethods,
            !.allowHeaders = m.allowHeaders,
            !.allowCredentials = "true",
            !.maxAge = "86400"],
     aborted |-> method = "OPTIONS",
     response |-> IF method = "OPTIONS" THEN StatusOnly(204) ELSE StatusOnly(0),
     steps |-> IF method = "OPTIONS" THEN <<"ctx.Header", "ctx.AbortWithStatus">>
               ELSE <<"ctx.Header", "ctx.Next">>]

\* provideRouter: r.Use(gin.Logger()), r.Use(gin.Recovery()),
\* r.Use(RequestID); mw.CORS is built by NewMiddleware but not given to Use.
GlobalMiddleware == <<"gin.Logger", "gin.Recovery", "RequestID">>

Methods == {"GET", "POST", "PUT", "DELETE", "OPTIONS"}

Paths == {"/health", "/api/v1/demos", "/api/v1/demos/:id", "/nowhere"}

\* The handler gin finds for a request.  gin.New() leaves
\* HandleMethodNotAllowed off, so a path registered under another method
\* goes to the NoRoute handler like an unknown path; the NoMethod handler is
\* registered but never chosen.
RouteHandler(method, path) ==
    CASE method = "GET" /\ path = "/health" -> "Health"
      [] method = "GET" /\ path = "/api/v1/demos" -> "GetAll"
      [] method = "GET" /\ path = "/api/v1/demos/:id" -> "GetByID"
      [] method = "POST" /\ path = "/api/v1/demos" -> "Create"
      [] method = "PUT" /\ path = "/api/v1/demos/:id" -> "Update"
      [] method = "DELETE" /\ path = "/api/v1/demos/:id" -> "Delete"
      [] OTHER -> "NoRoute"

Request(method, path, idParam, body, requestID, origin) ==
    [method |-> method, path |-> path, idParam |-> idParam, body |-> body,
     requestID |-> requestID, origin |-> origin]

NoReq == Request("", "", << >>, BodyMalformed, "", "")

RECURSIVE RunMiddleware(_, _, _, _)
\* The global middleware in the order of Use: each sets headers and context
\* values and goes on with ctx.Next() unless it aborts.  gin.Logger and
\* gin.Recovery change nothing of the response when no handler panics.
RunMiddleware(names, mw, req, uuid) ==
    IF names = << >>
    THEN [headers |-> NoHeaders, ctxRequestID |-> "", ran |-> << >>,
          aborted |-> FALSE, response |-> StatusOnly(0)]
    ELSE LET name == Head(names)
             rest == RunMiddleware(Tail(names), mw, req, uuid)
             rid == RequestIDHandle(req.requestID, uuid)
             cors == CORSHandle(mw.CORS, req.origin, req.method)
         IN  IF name = "RequestID"
             THEN [rest EXCEPT !.headers.requestID = rid.header,
                               !.ctxRequestID = rid.ctxRequestID,
                               !.ran = <<name>> \o rest.ran]
             ELSE IF name = "CORS"
             THEN IF cors.aborted
                  THEN [headers |-> cors.headers, ctxRequestID |-> "",
                        ran |-> <<name>>, aborted |-> TRUE,
                        response |-> cors.response]
                  ELSE [rest EXCEPT
                           !.headers = [cors.headers EXCEPT
                                           !.requestID = rest.headers.requestID],
                           !.ran = <<name>> \o rest.ran]
             ELSE [rest EXCEPT !.ran = <<name>> \o rest.ran]

\* The handler of the route on the table.
RunHandler(h, t, next, clock, req, fail) ==
    CASE h = "Health" -> HealthHandler(t, next)
      [] h = "GetAll" -> ControllerGetAll(t, next, fail # "none")
      [] h = "GetByID" -> ControllerGetByID(t, next, req.idParam, fail # "none")
      [] h = "Create" -> ControllerCreate(t, next, clock, req.body, fail # "none")
      [] h = "Update" -> ControllerUpdate(t, next, clock, req.idParam, req.body,
                                          fail = "first", fail = "second")
      [] h = "Delete" -> ControllerDelete(t, next, req.idParam,
                                          fail = "first", fail = "second")
      [] h = "NoMethod" -> MethodNotAllowedHandler(t, next)
      [] OTHER -> NotFoundHandler(t, next)

\* One request served by the engine provideRouter builds: the global
\* middleware, then the handler of the route unless a middleware aborted.
Serve(middleware, mw, t, next, clock, req, uuid, fail) ==
    CHOOSE served \in
      {IF m.aborted
       THEN [op |-> "Serve", req |-> req,
             handler |-> RouteHandler(req.method, req.path),
             response |-> m.response, headers |-> m.headers,
             ctxRequestID |-> m.ctxRequestID, ran |-> m.ran,
             svcCalled |-> FALSE, svcErr |-> Nil, logs |-> << >>,
             svcID |-> 0, table |-> t, nextID |-> next]
       ELSE CHOOSE handled \in
              {[op |-> "Serve", req |-> req,
                handler |-> RouteHandler(req.method, req.path),
                response |-> out.response, headers |-> m.headers,
                ctxRequestID |-> m.ctxRequestID,
                ran |-> m.ran \o <<RouteHandler(req.method, req.path)>>,
                svcCalled |-> out.svcCalled, svcErr |-> out.svcErr,
                logs |-> out.logs, svcID |-> out.svcID,
                table |-> out.table, nextID |-> out.nextID]
               : out \in {RunHandler(RouteHandler(req.method, req.path), t,
                                     next, clock, req, fail)}} : TRUE
       : m \in {RunMiddleware(middleware, mw, req, uuid)}} : TRUE

NoResp ==
    [op |-> "none", req |-> NoReq, handler |-> "", response |-> StatusOnly(0),
     headers |-> NoHeaders, ctxRequestID |-> "", ran |-> << >>,
     svcCalled |-> FALSE, svcErr |-> Nil, logs |-> << >>, svcID |-> 0]

HttpInit == resp = NoResp

\* The configuration the server was started with.
ServerConfig == [Enabled |-> TRUE, AllowOrigins |-> <<"http://localhost:3000">>]

\* No request is being served and no call is pending.
Idle == resp = NoResp /\ res = NoRes

\* The engine serves one request: the client's headers are any of those
\* above, and the generator is asked only when X-Request-ID is missing.
ServeRequest(method, path, idParam, body, fail) ==
    \E requestID \in RequestIDs, origin \in Origins :
          \E uuid \in IF requestID = "" THEN UUIDs ELSE {"uuid-1"} :
             \E r \in {Serve(GlobalMiddleware, NewMiddleware(ServerConfig),
                             table, nextID, now,
                             Request(method, path, idParam, body, requestID,
                                     origin),
                             uuid, fail)} :
                /\ r.nextID <= MaxDemos + 1
                /\ table' = r.table
                /\ nextID' = r.nextID
                /\ resp' = [op |-> r.op, req |-> r.req, handler |-> r.handler,
                            response |-> r.response, headers |-> r.headers,
                            ctxRequestID |-> r.ctxRequestID, ran |-> r.ran,
                            svcCalled |-> r.svcCalled, svcErr |-> r.svcErr,
                            logs |-> r.logs, svcID |-> r.svcID]
                /\ UNCHANGED <<now, res, cvars, pvars, rvars>>

HttpHealth ==
    /\ Idle
    /\ ServeRequest("GET", "/health", << >>, BodyMalformed, "none")

HttpGetAll ==
    /\ Idle
    /\ \E fail \in {"none", "first"} :
          ServeRequest("GET", "/api/v1/demos", << >>, BodyMalformed, fail)

HttpGetByID ==
    /\ Idle
    /\ \E idParam \in IDParams, fail \in {"none", "first"} :
          ServeRequest("GET", "/api/v1/demos/:id", idParam, BodyMalformed, fail)

HttpCreate ==
    /\ Idle
    /\ \E body \in Bodies, fail \in {"none", "first"} :
          ServeRequest("POST", "/api/v1/demos", << >>, body, fail)

HttpUpdate ==
    /\ Idle
    /\ \E idParam \in IDParams, body \in Bodies, fail \in Failures :
          ServeRequest("PUT", "/api/v1/demos/:id", idParam, body, fail)

HttpDelete ==
    /\ Idle
    /\ \E idParam \in IDParams, fail \in Failures :
          ServeRequest("DELETE", "/api/v1/demos/:id", idParam, BodyMalformed, fail)

\* A request for which no route is registered: an unknown path, or a
\* method the path is not registered under (OPTIONS among them).
HttpNoRoute ==
    \E method \in Methods, path \in Paths :
        /\ Idle
        /\ RouteHandler(method, path) = "NoRoute"
        /\ ServeRequest(method, path,
                        IF path = "/api/v1/demos/:id" THEN <<"1">> ELSE << >>,
                        BodyMalformed, "none")

\* RequestIDMiddleware.Handle() run on a request by itself.
HttpRequestID ==
    /\ Idle
    /\ \E inbound \in RequestIDs :
          \E uuid \in IF inbound = "" THEN UUIDs ELSE {"uuid-1"} :
             \E r \in {RequestIDHandle(inbound, uuid)} :
                resp' = [op |-> "RequestID.Handle", inbound |-> inbound,
                         uuid |-> uuid, ctxRequestID |-> r.ctxRequestID,
                         header |-> r.header, steps |-> r.steps]
    /\ UNCHANGED <<dvars, cvars, pvars, rvars>>

\* CORSMiddleware.Handle() of NewMiddleware(cfg) run on a request by itself.
HttpCORS ==
    /\ Idle
    /\ \E cfg \in CORSConfigs, origin \in Origins, method \in Methods :
          \E r \in {CORSHandle(NewMiddleware(cfg).CORS, origin, method)} :
             resp' = [op |-> "CORS.Handle", cfg |-> cfg, origin |-> origin,
                      method |-> method, headers |-> r.headers,
                      aborted |-> r.aborted, response |-> r.response,
                      steps |-> r.steps]
    /\ UNCHANGED <<dvars, cvars, pvars, rvars>>

\* MethodNotAllowedHandler() run on a request by itself (the engine never
\* chooses it, see RouteHandler).
HttpNoMethod ==
    /\ Idle
    /\ \E method \in Methods, path \in Paths :
          \E r \in {MethodNotAllowedHandler(table, nextID)} :
             resp' = [NoResp EXCEPT !.op = "Handler",
                                    !.req = Request(method, path, << >>,
                                                    BodyMalformed, "", ""),
                                    !.handler = "NoMethod",
                                    !.response = r.response,
                                    !.ran = <<"NoMethod">>]
    /\ UNCHANGED <<dvars, cvars, pvars, rvars>>

\* The response has been sent.
HttpReturn ==
    /\ resp # NoResp
    /\ resp' = NoResp
    /\ UNCHANGED <<dvars, cvars, pvars, rvars>>

HttpNext ==
    \/ HttpHealth
    \/ HttpGetAll
    \/ HttpGetByID
    \/ HttpCreate
    \/ HttpUpdate
    \/ HttpDelete
    \/ HttpNoRoute
    \/ HttpNoMethod
    \/ HttpRequestID
    \/ HttpCORS
    \/ HttpReturn

(***************************************************************************)
(* The cache factory (pkg/cache/factory.go).                               *)
(***************************************************************************)
\* cfg.Cache.Driver: the three values config.go documents, one it does not,
\* and the empty string of a configuration without the key.
Drivers == {"memory", "redis", "chain", "file", ""}

\* The *redis.Client handed in: nil or a client.
RedisClients == {"nil", "client"}

\* cfg.Cache.TTL, in seconds.
MaxTTL == 9

\* A cache manager is the list of its tiers in the order it looks in them;
\* the nil interface has none.
NilManager == [nil |-> TRUE, tiers |-> << >>]

Manager(tiers) == [nil |-> FALSE, tiers |-> tiers]

\* cache.New(redis_store.NewRedis(redisClient))
RedisTier == [store |-> "redis", defaultTTL |-> 0, cleanup |-> 0]

\* cache.New(gocache_store.NewGoCache(gocache.New(defaultTTL, defaultTTL*2)))
MemoryTier(ttl) == [store |-> "memory", defaultTTL |-> ttl, cleanup |-> ttl * 2]

NewCacheManager(driver, ttl, redisClient) ==
    CASE driver = "redis" ->
            IF redisClient = "nil"
            THEN [manager |-> NilManager,
                  err |-> <<"redis client is required for redis driver">>]
            ELSE [manager |-> Manager(<<RedisTier>>), err |-> Nil]
      [] driver = "memory" ->
            [manager |-> Manager(<<MemoryTier(ttl)>>), err |-> Nil]
      [] OTHER ->
            [manager |-> NilManager,
             err |-> <<"unsupported cache driver: " \o driver>>]

\* cache.NewChain(memory, redis): L1 memory, L2 Redis.
NewChainCache(ttl, redisClient) ==
    IF redisClient = "nil"
    THEN [manager |-> NilManager,
          err |-> <<"redis client is required for chain cache">>]
    ELSE [manager |-> Manager(<<MemoryTier(ttl), RedisTier>>), err |-> Nil]

NoMade ==
    [op |-> "none", driver |-> "", ttl |-> 0, redisClient |-> "nil",
     manager |-> NilManager, err |-> Nil]

FactoryInit == made = NoMade

FactoryNewCacheManager ==
    /\ made = NoMade
    /\ \E driver \in Drivers, ttl \in 0..MaxTTL, redisClient \in RedisClients :
          \E r \in {NewCacheManager(driver, ttl, redisClient)} :
             made' = [op |-> "NewCacheManager", driver |-> driver,
                      ttl |-> ttl, redisClient |-> redisClient,
                      manager |-> r.manager, err |-> r.err]
    /\ UNCHANGED <<cvars, dvars, hvars, proc, rvars>>

FactoryNewChainCache ==
    /\ made = NoMade
    /\ \E ttl \in 0..MaxTTL, redisClient \in RedisClients :
          \E r \in {NewChainCache(ttl, redisClient)} :
             made' = [op |-> "NewChainCache", driver |-> "", ttl |-> ttl,
                      redisClient |-> redisClient, manager |-> r.manager,
                      err |-> r.err]
    /\ UNCHANGED <<cvars, dvars, hvars, proc, rvars>>

\* The caller takes what the factory returned.
FactoryReturn ==
    /\ made # NoMade
    /\ made' = NoMade
    /\ UNCHANGED <<cvars, dvars, hvars, proc, rvars>>

FactoryNext ==
    \/ FactoryNewCacheManager
    \/ FactoryNewChainCache
    \/ FactoryReturn

(***************************************************************************)
(* The process (main in create-project.sh).                                *)
(***************************************************************************)
\* main stands before the step pc names; server is the goroutine of
\* router.Run; notify tells whether signal.Notify(quit, SIGINT, SIGTERM) was
\* called; quit counts the signals in the channel (capacity 1); cleanups and
\* closes count the calls of the cleanup callback and of logger.Close made
\* by main's deferred calls; exit tells how the process ended.  newLoggers
\* counts the runs of logger.NewLogger, assigned the assignments of the
\* package variables Logger and Sugar; logged tells whether a function of
\* the package (logger.Info, ...) was called, and reassigned whether the
\* variables were assigned after such a call.
Proc(pc, server, notify, quit, delivered, cleanups, closes, exit) ==
    [pc |-> pc, server |-> server, notify |-> notify, quit |-> quit,
     delivered |-> delivered, cleanups |-> cleanups, closes |-> closes,
     exit |-> exit, newLoggers |-> 0, assigned |-> 0, logged |-> FALSE,
     reassigned |-> FALSE]

ProcInit ==
    proc = Proc("LoadConfig", "none", FALSE, 0, FALSE, 0, 0, "")

\* os.Exit: no deferred call runs.
Exit(how) == [proc EXCEPT !.pc = "exited", !.exit = how]

Signals == {"SIGINT", "SIGTERM"}

\* config.LoadConfig; log.Fatalf on an error.
MainLoadConfig ==
    /\ proc.pc = "LoadConfig"
    /\ \E ok \in BOOLEAN :
          proc' = IF ok THEN [proc EXCEPT !.pc = "InitLogger"]
                  ELSE Exit("log.Fatalf")
    /\ UNCHANGED <<cvars, dvars, hvars, made, rvars>>

\* logger.InitLogger; log.Fatalf on an error; defer logger.Close().
\* logger.NewLogger as InitLogger calls it: os.MkdirAll may fail, and then
\* the function returns before the package variables are assigned.
NewLogger(p, ok) ==
    IF ok
    THEN [p EXCEPT !.newLoggers = @ + 1, !.assigned = @ + 1,
                   !.reassigned = @ \/ p.logged]
    ELSE [p EXCEPT !.newLoggers = @ + 1]

MainInitLogger ==
    /\ proc.pc = "InitLogger"
    /\ \E ok \in BOOLEAN :
          proc' = IF ok
                  THEN [NewLogger(proc, TRUE) EXCEPT !.pc = "InitializeApp",
                                                     !.logged = TRUE]
                  ELSE [NewLogger(proc, FALSE) EXCEPT !.pc = "exited",
                                                      !.exit = "log.Fatalf"]
    /\ UNCHANGED <<cvars, dvars, hvars, made, rvars>>

\* The providers of wire.Build that can fail, in the order of their
\* dependencies, and "" for none.
Providers == {"config.LoadConfig", "logger.InitLogger",
              "database.NewMySQLDB", ""}

\* InitializeApp runs the providers of the injection graph, among them
\* logger.InitLogger for the *zap.Logger of provideRouterAndCleanup, and
\* stops at the first that fails; logger.Fatalf on an error; defer
\* cleanup().
MainInitializeApp ==
    /\ proc.pc = "InitializeApp"
    /\ \E failing \in Providers :
          proc' = CASE failing = "config.LoadConfig" ->
                         [proc EXCEPT !.pc = "exited",
                                      !.exit = "logger.Fatalf"]
                    [] failing = "logger.InitLogger" ->
                         [NewLogger(proc, FALSE) EXCEPT
                             !.pc = "exited", !.exit = "logger.Fatalf"]
                    [] failing = "database.NewMySQLDB" ->
                         [NewLogger(proc, TRUE) EXCEPT
                             !.pc = "exited", !.exit = "logger.Fatalf"]
                    [] OTHER ->
                         [NewLogger(proc, TRUE) EXCEPT !.pc = "go"]
    /\ UNCHANGED <<cvars, dvars, hvars, made, rvars>>

\* go func() { router.Run(port) ... }()
MainGo ==
    /\ proc.pc = "go"
    /\ proc' = [proc EXCEPT !.pc = "Notify", !.server = "starting"]
    /\ UNCHANGED <<cvars, dvars, hvars, made, rvars>>

\* quit := make(chan os.Signal, 1); signal.Notify(quit, SIGINT, SIGTERM)
MainNotify ==
    /\ proc.pc = "Notify"
    /\ proc' = [proc EXCEPT !.pc = "wait", !.notify = TRUE]
    /\ UNCHANGED <<cvars, dvars, hvars, made, rvars>>

\* <-quit
MainWait ==
    /\ proc.pc = "wait"
    /\ proc.quit > 0
    /\ proc' = [proc EXCEPT !.pc = "return", !.quit = 0]
    /\ UNCHANGED <<cvars, dvars, hvars, made, rvars>>

\* The two closing messages; main returns.
MainReturn ==
    /\ proc.pc = "return"
    /\ proc' = [proc EXCEPT !.pc = "defer cleanup"]
    /\ UNCHANGED <<cvars, dvars, hvars, made, rvars>>

\* The deferred cleanup() of provideRouterAndCleanup: logger.Close().
MainDeferredCleanup ==
    /\ proc.pc = "defer cleanup"
    /\ proc' = [proc EXCEPT !.pc = "defer Close", !.cleanups = @ + 1]
    /\ UNCHANGED <<cvars, dvars, hvars, made, rvars>>

\* The deferred logger.Close(); the process ends with main.
MainDeferredClose ==
    /\ proc.pc = "defer Close"
    /\ proc' = [Exit("return") EXCEPT !.closes = @ + 1]
    /\ UNCHANGED <<cvars, dvars, hvars, made, rvars>>

\* router.Run(port) listens.
ServerListen ==
    /\ proc.pc # "exited"
    /\ proc.server = "starting"
    /\ proc' = [proc EXCEPT !.server = "serving"]
    /\ UNCHANGED <<cvars, dvars, hvars, made, rvars>>

\* router.Run(port) returns an error (the port is taken, the listener
\* fails): logger.Fatalf in the goroutine ends the process.
ServerFatal ==
    /\ proc.pc # "exited"
    /\ proc.server \in {"starting", "serving"}
    /\ proc' = [Exit("logger.Fatalf") EXCEPT !.server = "failed"]
    /\ UNCHANGED <<cvars, dvars, hvars, made, rvars>>

\* SIGINT or SIGTERM is delivered to the process: into the channel once
\* signal.Notify was called (dropped when the channel is full), and with
\* the default disposition, which ends the process, before that.
Signal ==
    /\ proc.pc # "exited"
    /\ \E sig \in Signals :
          proc' = IF proc.notify
                  THEN [proc EXCEPT !.quit = 1, !.delivered = TRUE]
                  ELSE [Exit(sig) EXCEPT !.delivered = TRUE]
    /\ UNCHANGED <<cvars, dvars, hvars, made, rvars>>

\* The server answers requests while it listens.
MainServe ==
    /\ proc.pc # "exited"
    /\ proc.server = "serving"
    /\ \/ HttpHealth
       \/ HttpNoRoute
       \/ HttpReturn

\* The steps of main itself.
MainProgram ==
    \/ MainLoadConfig
    \/ MainInitLogger
    \/ MainInitializeApp
    \/ MainGo
    \/ MainNotify
    \/ MainWait
    \/ MainReturn
    \/ MainDeferredCleanup
    \/ MainDeferredClose

MainNext ==
    \/ MainProgram
    \/ ServerListen
    \/ ServerFatal
    \/ Signal
    \/ MainServe

(***************************************************************************)
(* Calls that overlap.  Every request is served in a goroutine of its own; *)
(* here each goroutine runs one call at a time, a step is one statement of *)
(* the call that reaches the database or the cache, and the statements of  *)
(* two goroutines interleave freely (no lock, no transaction around them). *)
(***************************************************************************)
Goroutines == {"g1", "g2"}

\* A call in progress: pc names the statement that comes next ("done" once
\* the call has returned), the other fields are the call's arguments, its
\* local variables and what it returned.
IdleCall ==
    [op |-> "none", pc |-> "idle", id |-> 0, in |-> NoRow, row |-> NoRow,
     err |-> Nil, key |-> "", ttl |-> 0, cb |-> NoCallback, value |-> "",
     computed |-> 0, page |-> 0, pageSize |-> 0, total |-> 0, rows |-> << >>]

RaceInit == calls = [g \in Goroutines |-> IdleCall]

Call(op, pc) == [IdleCall EXCEPT !.op = op, !.pc = pc]

\* The caller has its result; the goroutine is free for the next call.
GoReturn(g) ==
    /\ calls[g].pc = "done"
    /\ calls' = [calls EXCEPT ![g] = IdleCall]
    /\ UNCHANGED <<dvars, cvars, hvars, pvars>>

\* DemoService.Create: one INSERT.
GoCreate(g) ==
    /\ calls[g] = IdleCall
    /\ \E r \in {ServiceCreate(table, nextID, now, DemoA, FALSE)} :
          /\ r.nextID <= MaxDemos + 1
          /\ table' = r.table
          /\ nextID' = r.nextID
          /\ calls' = [calls EXCEPT ![g] =
                          [Call("Service.Create", "done") EXCEPT
                              !.in = DemoA, !.row = r.value, !.err = r.err]]
    /\ UNCHANGED <<now, res, cvars, hvars, pvars>>

\* DemoService.Update up to its first statement: FindByID, whose error is
\* returned; otherwise the row read takes the fields of the argument.
GoUpdateFind(g) ==
    /\ calls[g] = IdleCall
    /\ \E id \in IDs, d \in DemoInputs :
          \E f \in {DemoFindByID(table, id, FALSE)} :
             calls' = [calls EXCEPT ![g] =
                          IF f.err # Nil
                          THEN [Call("Service.Update", "done") EXCEPT
                                   !.id = id, !.in = d, !.err = f.err]
                          ELSE [Call("Service.Update", "save") EXCEPT
                                   !.id = id, !.in = d,
                                   !.row = [f.row EXCEPT
                                               !.Title = d.Title,
                                               !.Content = d.Content,
                                               !.Status = d.Status]]]
    /\ UNCHANGED <<dvars, cvars, hvars, pvars>>

\* DemoService.Update from its second statement: demoRepo.Update (Save) of
\* the row that was read and changed.
GoUpdateSave(g) ==
    /\ calls[g].op = "Service.Update"
    /\ calls[g].pc = "save"
    /\ \E r \in {DemoUpdate(table, nextID, now, calls[g].row, FALSE)} :
          /\ table' = r.table
          /\ nextID' = r.nextID
          /\ calls' = [calls EXCEPT ![g].pc = "done", ![g].err = r.err,
                                    ![g].row = r.value]
    /\ UNCHANGED <<now, res, cvars, hvars, pvars>>

\* DemoService.Delete up to its first statement: FindByID.
GoDeleteFind(g) ==
    /\ calls[g] = IdleCall
    /\ \E id \in IDs :
          \E f \in {DemoFindByID(table, id, FALSE)} :
             calls' = [calls EXCEPT ![g] =
                          IF f.err # Nil
                          THEN [Call("Service.Delete", "done") EXCEPT
                                   !.id = id, !.err = f.err]
                          ELSE [Call("Service.Delete", "delete") EXCEPT
                                   !.id = id, !.row = f.row]]
    /\ UNCHANGED <<dvars, cvars, hvars, pvars>>

\* DemoService.Delete from its second statement: demoRepo.Delete.
GoDeleteDelete(g) ==
    /\ calls[g].op = "Service.Delete"
    /\ calls[g].pc = "delete"
    /\ \E r \in {DemoDelete(table, calls[g].id, FALSE)} :
          /\ table' = r.table
          /\ calls' = [calls EXCEPT ![g].pc = "done", ![g].err = r.err]
    /\ UNCHANGED <<nextID, now, res, cvars, hvars, pvars>>

\* The page sizes FindPage is called with.
PageSizes == {1, MaxID}

\* The same as GoPageFind, but pages are counted from zero.
GoPageFindZeroBased(g) ==
    /\ calls[g].op = "FindPage"
    /\ calls[g].pc = "find"
    /\ \E f \in {gormFind(table, QueryNil, FALSE)} :
          calls' = [calls EXCEPT
                       ![g].pc = "done",
                       ![g].err = Wrap(f.err, "query page failed"),
                       ![g].rows = OffsetLimit(f.rows,
                                               calls[g].page * calls[g].pageSize,
                                               calls[g].pageSize)]
    /\ UNCHANGED <<dvars, cvars, hvars, pvars>>

\* BaseRepository.FindPage up to its first statement: db.Count(&total).
GoPageCount(g) ==
    /\ calls[g] = IdleCall
    /\ \E page \in 1..2, pageSize \in PageSizes :
          \E c \in {gormCount(table, QueryNil, FALSE)} :
             calls' = [calls EXCEPT ![g] =
                          IF c.err # Nil
                          THEN [Call("FindPage", "done") EXCEPT
                                   !.page = page, !.pageSize = pageSize,
                                   !.err = Wrap(c.err, "count failed")]
                          ELSE [Call("FindPage", "find") EXCEPT
                                   !.page = page, !.pageSize = pageSize,
                                   !.total = c.count]]
    /\ UNCHANGED <<dvars, cvars, hvars, pvars>>

\* BaseRepository.FindPage from its second statement:
\* db.Offset(offset).Limit(pageSize).Find(dest), on the table as it is now.
GoPageFind(g) ==
    /\ calls[g].op = "FindPage"
    /\ calls[g].pc = "find"
    /\ \E f \in {gormFind(table, QueryNil, FALSE)} :
          calls' = [calls EXCEPT
                       ![g].pc = "done",
                       ![g].err = Wrap(f.err, "query page failed"),
                       ![g].rows = OffsetLimit(f.rows,
                                               (calls[g].page - 1)
                                                   * calls[g].pageSize,
                                               calls[g].pageSize)]
    /\ UNCHANGED <<dvars, cvars, hvars, pvars>>

\* CacheFacade.Remember up to its first statement: f.Get, whose value is
\* returned when it gives no error.
GoRememberGet(g) ==
    /\ calls[g] = IdleCall
    /\ \E key \in Keys, ttl \in TTLs, cb \in Callbacks :
          \E r \in {FacadeGet(store, key, FALSE)} :
             calls' = [calls EXCEPT ![g] =
                          IF r.err = Nil
                          THEN [Call("Remember", "done") EXCEPT
                                   !.key = key, !.ttl = ttl, !.cb = cb,
                                   !.value = r.value]
                          ELSE [Call("Remember", "callback") EXCEPT
                                   !.key = key, !.ttl = ttl, !.cb = cb]]
    /\ UNCHANGED <<dvars, cvars, hvars, pvars>>

\* The same as GoRememberCallback, but a callback that failed is tried once
\* more.
GoRememberCallbackRetry(g) ==
    /\ calls[g].op = "Remember"
    /\ calls[g].pc = "callback"
    /\ calls' = [calls EXCEPT
                    ![g].computed = IF calls[g].cb.err # Nil THEN @ + 2
                                    ELSE @ + 1,
                    ![g].pc = IF calls[g].cb.err # Nil THEN "done" ELSE "set",
                    ![g].err = calls[g].cb.err,
                    ![g].value = IF calls[g].cb.err # Nil THEN ""
                                 ELSE calls[g].cb.value]
    /\ UNCHANGED <<dvars, cvars, hvars, pvars>>

\* CacheFacade.Remember, its second statement: callback(), whose error is
\* returned with the empty string.
GoRememberCallback(g) ==
    /\ calls[g].op = "Remember"
    /\ calls[g].pc = "callback"
    /\ calls' = [calls EXCEPT
                    ![g].computed = @ + 1,
                    ![g].pc = IF calls[g].cb.err # Nil THEN "done" ELSE "set",
                    ![g].err = calls[g].cb.err,
                    ![g].value = IF calls[g].cb.err # Nil THEN ""
                                 ELSE calls[g].cb.value]
    /\ UNCHANGED <<dvars, cvars, hvars, pvars>>

\* CacheFacade.Remember, its third statement: f.Set of the computed value
\* (its error dropped); the value is returned.
GoRememberSet(g) ==
    /\ calls[g].op = "Remember"
    /\ calls[g].pc = "set"
    /\ \E w \in {FacadeSet(store, calls[g].key, calls[g].value,
                           calls[g].ttl, FALSE)} :
          /\ store' = w.store
          /\ calls' = [calls EXCEPT ![g].pc = "done"]
    /\ UNCHANGED <<cres, cprev, dvars, hvars, pvars>>

RaceCacheNext ==
    \E g \in Goroutines :
        \/ GoReturn(g)
        \/ GoRememberGet(g)
        \/ GoRememberCallback(g)
        \/ GoRememberSet(g)

RaceDemoNext ==
    \E g \in Goroutines :
        \/ GoReturn(g)
        \/ GoCreate(g)
        \/ GoUpdateFind(g)
        \/ GoUpdateSave(g)
        \/ GoDeleteFind(g)
        \/ GoDeleteDelete(g)
        \/ GoPageCount(g)
        \/ GoPageFind(g)

(***************************************************************************)
(* Claims about the HTTP layer.                                            *)
(***************************************************************************)
\* POST /api/v1/demos was served and the service created the record.
CreateSucceeded ==
    /\ resp.op = "Serve"
    /\ resp.handler = "Create"
    /\ resp.svcCalled
    /\ resp.svcErr = Nil

\* The response carries the created record: the row now stored under the ID
\* the database assigned.
CarriesCreated ==
    /\ resp.response.data.kind = "demo"
    /\ resp.response.data.demo.ID \in IDs
    /\ table[resp.response.data.demo.ID] = resp.response.data.demo
    /\ resp.response.data.demo.Title = resp.req.body.title

\* C11 as stated: a successful POST /api/v1/demos answers with an envelope
\* of code 200 and message "success" whose data is the created record with
\* its database-assigned ID.
C11_CreateRespondsSuccess ==
    CreateSucceeded
        => /\ resp.response.envelope
           /\ resp.response.code = 200
           /\ resp.response.message = <<"success">>
           /\ CarriesCreated

\* C11 amended: a successful POST /api/v1/demos answers with an envelope of
\* code 200 and message "demo created successfully" whose data is the
\* created record with its database-assigned ID.
C11_CreateRespondsCreated ==
    CreateSucceeded
        => /\ resp.response.envelope
           /\ resp.response.status = 200
           /\ resp.response.code = 200
           /\ resp.response.message = <<"demo created successfully">>
           /\ CarriesCreated

\* The scenario of the specification: {title: "A", content: "x", status: 1}
\* was created and answered with ID 1.
C11_Witness ==
    /\ CreateSucceeded
    /\ resp.req.body = Body("A", "x", 1)
    /\ resp.response.data.demo.ID = 1
    /\ resp.response.message = <<"demo created successfully">>

\* GetByID, Update or Delete was served and the service returned an error.
ServiceFailed ==
    /\ resp.op = "Serve"
    /\ resp.handler \in {"GetByID", "Update", "Delete"}
    /\ resp.svcCalled
    /\ resp.svcErr # Nil

\* C12: when the service returns an error to GetByID, Update or Delete, the
\* response is 404 with envelope code 404 if ErrNotFound is in the chain of
\* the error, and 500 with envelope code 500 otherwise; never both, and
\* never a 2xx response.
C12_NotFoundOrInternalError ==
    ServiceFailed
        => /\ resp.response.envelope
           /\ resp.response.code = resp.response.status
           /\ resp.response.status \in {404, 500}
           /\ resp.response.status = 404 <=> Is(resp.svcErr, ErrNotFound)
           /\ resp.response.status \notin 200..299

\* Delete found the record, the deletion failed in the database, and the
\* wrapped driver error was answered with 500.
C12_Witness ==
    /\ ServiceFailed
    /\ resp.handler = "Delete"
    /\ ~Is(resp.svcErr, ErrNotFound)
    /\ Len(resp.svcErr) > 1
    /\ resp.response.status = 500
    /\ resp.response.code = 500

\* C13: after a successful DemoService.Update(id, d) the stored record id
\* has the title, content and status of d (zero values included), its ID
\* and CreatedAt are what they were, every other record is unchanged, and
\* an ID carried in d plays no part.
C13_UpdateStoresInput ==
    [][(res'.op = "Service.Update" /\ res'.err = Nil)
          => /\ table'[res'.id].Title = res'.in.Title
             /\ table'[res'.id].Content = res'.in.Content
             /\ table'[res'.id].Status = res'.in.Status
             /\ table'[res'.id].ID = res'.id
             /\ table'[res'.id].CreatedAt = table[res'.id].CreatedAt
             /\ \A j \in IDs \ {res'.id} : table'[j] = table[j]]_dvars

\* A handler answered: one of the Demo handlers, the health handler or the
\* not-found handler behind the engine, or the method-not-allowed handler.
HandlerAnswered == resp.op \in {"Serve", "Handler"}

\* The status each path of a handler answers with: 200 on success, 400 on
\* an id or a body that is refused, 404 on not found, 405 on method not
\* allowed, 500 on any other error of the service.
PathStatus ==
    CASE resp.handler = "NoRoute" -> 404
      [] resp.handler = "NoMethod" -> 405
      [] resp.handler = "Health" -> 200
      [] ~resp.svcCalled -> 400
      [] resp.svcErr = Nil -> 200
      [] Is(resp.svcErr, ErrNotFound) /\ resp.handler # "Create" -> 404
      [] OTHER -> 500

\* C14: every response of the Demo handlers and of the health, not-found
\* and method-not-allowed handlers carries the envelope, the code of the
\* envelope is the HTTP status, and the status is that of the path taken
\* (200 success, 4xx client error, 500 server error).
C14_EnvelopeMirrorsStatus ==
    HandlerAnswered
        => /\ resp.response.envelope
           /\ resp.response.code = resp.response.status
           /\ resp.response.status = PathStatus
           /\ resp.response.status \in {200, 400, 404, 405, 500}
           /\ resp.response.message # << >>

\* POST /api/v1/demos with a body that is not JSON: answered 400/400
\* without a call of the service.
C14_Witness ==
    /\ resp.op = "Serve"
    /\ resp.handler = "Create"
    /\ ~resp.req.body.json
    /\ ~resp.svcCalled
    /\ resp.response.envelope
    /\ resp.response.status = 400
    /\ resp.response.code = 400

\* A Demo handler was served and the service returned an error.
AnyServiceFailed ==
    /\ resp.op = "Serve"
    /\ resp.handler \in {"GetAll", "GetByID", "Create", "Update", "Delete"}
    /\ resp.svcCalled
    /\ resp.svcErr # Nil

\* The one response a handler has for each kind of error.
ResponseOfKind(handler, notFound) ==
    CASE handler = "GetAll" -> InternalError(<<"get demos failed">>)
      [] handler = "Create" -> InternalError(<<"create demo failed">>)
      [] notFound -> NotFound(<<"demo not found">>)
      [] handler = "GetByID" -> InternalError(<<"get demo failed">>)
      [] handler = "Update" -> InternalError(<<"update demo failed">>)
      [] OTHER -> InternalError(<<"delete demo failed">>)

\* C15: the status and the body a Demo handler answers a service error with
\* depend on the handler and on the kind of the error (Not-Found or not)
\* alone, so two errors of one kind get identical responses; the message is
\* the fixed string of the handler and holds no text of the error chain.
C15_ErrorCauseDoesNotShow ==
    AnyServiceFailed
        => /\ resp.response
                 = ResponseOfKind(resp.handler, Is(resp.svcErr, ErrNotFound))
           /\ \A i \in 1..Len(resp.response.message) :
                 \A j \in 1..Len(resp.svcErr) :
                    resp.response.message[i] # resp.svcErr[j]

\* PUT found the record and the save failed: the driver's error, wrapped by
\* the repository, is answered like the failure of the lookup.
C15_Witness ==
    /\ AnyServiceFailed
    /\ resp.handler = "Update"
    /\ resp.svcErr = Wrap(ErrDriver, "update failed")
    /\ resp.response = InternalError(<<"update demo failed">>)

\* C16: an OPTIONS request against any route of the assembled server is
\* answered 204 with an Access-Control-Allow-Origin header matching the
\* allow-list of the configuration ("*" for the wildcard list, the Origin
\* of the request when it is listed), and nothing after the CORS middleware
\* runs for it: no later middleware and no handler.
C16_PreflightAnswered ==
    (resp.op = "Serve" /\ resp.req.method = "OPTIONS")
        => /\ resp.response.status = 204
           /\ NewMiddleware(ServerConfig).CORS.allowOrigins = <<"*">>
                 => resp.headers.allowOrigin = "*"
           /\ isOriginAllowed(NewMiddleware(ServerConfig).CORS, resp.req.origin)
                 => resp.headers.allowOrigin # ""
           /\ resp.ran # << >>
           /\ resp.ran[Len(resp.ran)] = "CORS"

\* The places of a call in the calls a middleware made.
StepsOf(steps, call) == {i \in 1..Len(steps) : steps[i] = call}

\* C17: RequestIDMiddleware keeps a non-empty inbound X-Request-ID and
\* generates an identifier when there is none; the value in the context and
\* the response header are that one value, and the next handler is called
\* exactly once, after both were set.
C17_RequestIDPropagated ==
    /\ resp.op = "RequestID.Handle"
          => /\ resp.inbound # ""
                   => resp.ctxRequestID = resp.inbound
             /\ resp.inbound = ""
                   => resp.ctxRequestID = resp.uuid /\ resp.uuid # ""
             /\ resp.header = resp.ctxRequestID
             /\ Cardinality(StepsOf(resp.steps, "ctx.Next")) = 1
             /\ \A n \in StepsOf(resp.steps, "ctx.Next") :
                   /\ \E i \in StepsOf(resp.steps, "ctx.Set") : i < n
                   /\ \E i \in StepsOf(resp.steps, "ctx.Header") : i < n
    /\ resp.op = "Serve"
          => /\ resp.req.requestID # ""
                   => resp.ctxRequestID = resp.req.requestID
             /\ resp.req.requestID = "" => resp.ctxRequestID \in UUIDs
             /\ resp.headers.requestID = resp.ctxRequestID
             /\ Cardinality(StepsOf(resp.ran, resp.handler)) = 1
             /\ \A n \in StepsOf(resp.ran, resp.handler) :
                   \E i \in StepsOf(resp.ran, "RequestID") : i < n

\* A request carrying X-Request-ID: req-1 was served and answered with it.
C17_Witness ==
    /\ resp.op = "Serve"
    /\ resp.req.requestID = "req-1"
    /\ resp.ctxRequestID = "req-1"
    /\ resp.headers.requestID = "req-1"
    /\ resp.handler = "GetAll"

(***************************************************************************)
(* Claims about the cache factory and the process.                         *)
(***************************************************************************)
\* C18: with a Redis client at hand, NewCacheManager returns a manager and
\* no error for each documented driver ("memory", "redis", "chain"), the
\* manager of "chain" looking in the memory tier before the Redis tier; for
\* any other driver it returns no manager and an error.
C18_DocumentedDriversSupported ==
    (made.op = "NewCacheManager" /\ made.redisClient # "nil")
        => IF made.driver \in {"memory", "redis", "chain"}
           THEN /\ ~made.manager.nil
                /\ made.err = Nil
                /\ made.driver = "chain"
                      => /\ Len(made.manager.tiers) = 2
                         /\ made.manager.tiers[1].store = "memory"
                         /\ made.manager.tiers[2].store = "redis"
           ELSE /\ made.manager.nil
                /\ made.err # Nil

\* C19: the process does not exit after startup (main has called
\* signal.Notify and waits for a signal) without the cleanup callback of
\* InitializeApp having run; in particular a delivered SIGINT or SIGTERM
\* is followed by the cleanup before the exit.
C19_NoExitWithoutCleanup ==
    (proc.pc = "exited" /\ proc.notify) => proc.cleanups > 0

\* C20: Remember calls the compute callback exactly when its Get returned
\* an error, a miss and a backend failure alike; on a hit it returns the
\* stored value and neither computes nor sets; after an error of Get and a
\* successful compute it makes one Set, of the key with the computed value.
C20_ComputeIffGetFailed ==
    [][cres'.op = "Remember"
          => /\ cres'.computeCalls \in {0, 1}
             /\ cres'.computeCalls = 1 <=> cres'.get \in {"miss", "error"}
             /\ cres'.get = "hit" => store[cres'.key].present
             /\ cres'.get = "miss" => ~store[cres'.key].present
             /\ cres'.get = "hit"
                   => /\ cres'.value = store[cres'.key].value
                      /\ cres'.err = Nil
                      /\ cres'.sets = << >>
                      /\ store' = store
             /\ (cres'.get # "hit" /\ cres'.cb.err = Nil)
                   => /\ Len(cres'.sets) = 1
                      /\ cres'.sets[1].key = cres'.key
                      /\ cres'.sets[1].value = cres'.cb.value
                      /\ ~cres'.setFailed
                            => /\ store'[cres'.key].present
                               /\ store'[cres'.key].value = cres'.cb.value
                               /\ store'[cres'.key].ttl = cres'.sets[1].ttl]_cvars

\* Get failed in the backend, the callback computed a value and Remember
\* stored it with one Set.
C20_Witness ==
    /\ cres.op = "Remember"
    /\ cres.get = "error"
    /\ cres.computeCalls = 1
    /\ cres.cb.err = Nil
    /\ Len(cres.sets) = 1
    /\ ~cres.setFailed
    /\ store[cres.key].value = cres.cb.value

(***************************************************************************)
(* Claims about the service's logging, the logger and the catch-alls.      *)
(***************************************************************************)
\* The field that identifies what a service operation worked on.
IdentifierOf(op) ==
    CASE op = "Service.Create" -> {"title"}
      [] op = "Service.GetAll" -> {}
      [] OTHER -> {"id"}

\* C21: a DemoService operation that returns an error has logged an entry
\* of level error carrying the error and the identifier of the operation
\* before it returns.
C21_ServiceErrorsLogged ==
    (/\ res.op \in {"Service.GetByID", "Service.GetAll", "Service.Create",
                    "Service.Update", "Service.Delete"}
     /\ res.err # Nil)
        => \E i \in 1..Len(res.logs) :
              /\ res.logs[i].level = "error"
              /\ "error" \in res.logs[i].fields
              /\ IdentifierOf(res.op) \subseteq res.logs[i].fields

\* C22: during the start of the process logger.NewLogger runs at most once
\* and the package variables Logger and Sugar are assigned at most once,
\* never after a call of a function of the logger package.
C22_LoggerInitializedOnce ==
    /\ proc.newLoggers <= 1
    /\ proc.assigned <= 1
    /\ ~proc.reassigned

\* The paths provideRouter registers under some method.
RegisteredPaths == {path \in Paths : \E method \in Methods :
                                        RouteHandler(method, path) # "NoRoute"}

\* C23: the assembled router answers a request for a path that no route
\* has with status 404 and envelope code 404, and a request for a path that
\* is registered, but not under the request's method, with status 405 and
\* envelope code 405.
C23_CatchAlls ==
    (resp.op = "Serve" /\ RouteHandler(resp.req.method, resp.req.path) = "NoRoute")
        => /\ resp.response.envelope
           /\ resp.req.path \notin RegisteredPaths
                 => resp.response.status = 404 /\ resp.response.code = 404
           /\ resp.req.path \in RegisteredPaths
                 => resp.response.status = 405 /\ resp.response.code = 405

\* C24: DemoService.Update and DemoService.Delete called with an id that
\* has no record return an error and leave the store as it was (no record
\* is created, none changes); the error is of the Not-Found kind unless the
\* lookup itself failed in the database.
C24_MissingIDLeavesStore ==
    [][(/\ res'.op \in {"Service.Update", "Service.Delete"}
        /\ ~HasRow(table, res'.id))
          => /\ res'.err # Nil
             /\ res'.cause # ErrDriver => Is(res'.err, ErrNotFound)
             /\ table' = table
             /\ nextID' = nextID]_dvars

\* Update returned Not-Found for an id without a record while the store
\* holds another record.
C24_Witness ==
    /\ res.op = "Service.Update"
    /\ ~HasRow(table, res.id)
    /\ Is(res.err, ErrNotFound)
    /\ \E j \in IDs : HasRow(table, j)

\* C25: when a DemoService.Update and a DemoService.Delete of the same id
\* have both returned and Delete returned success, the store has no record
\* with that id, however their statements interleaved.
C25_DeleteWins ==
    \A g \in Goroutines, h \in Goroutines :
        (/\ calls[g].op = "Service.Delete"
         /\ calls[g].pc = "done"
         /\ calls[g].err = Nil
         /\ calls[h].op = "Service.Update"
         /\ calls[h].pc = "done"
         /\ calls[h].id = calls[g].id)
            => ~HasRow(table, calls[g].id)

\* The origins on the list of the CORS middleware built from cfg.
AllowList(cfg) ==
    {NewMiddleware(cfg).CORS.allowOrigins[i]
        : i \in 1..Len(NewMiddleware(cfg).CORS.allowOrigins)}

\* C28: the Access-Control-Allow-Origin header CORSMiddleware sets is
\* absent, or the request's Origin when that origin or "*" is on the list,
\* or "*" when the list is exactly ["*"]; an Origin that is not on a list
\* without "*" gets no header; and a request that is not OPTIONS goes on to
\* the next handler exactly once.
C28_OriginWithinAllowList ==
    resp.op = "CORS.Handle"
        => /\ \/ resp.headers.allowOrigin = ""
              \/ /\ resp.headers.allowOrigin = resp.origin
                 /\ resp.origin \in AllowList(resp.cfg)
                       \/ "*" \in AllowList(resp.cfg)
              \/ /\ resp.headers.allowOrigin = "*"
                 /\ NewMiddleware(resp.cfg).CORS.allowOrigins = <<"*">>
           /\ (/\ resp.origin # ""
               /\ resp.origin \notin AllowList(resp.cfg)
               /\ "*" \notin AllowList(resp.cfg))
                 => resp.headers.allowOrigin = ""
           /\ resp.method # "OPTIONS"
                 => /\ ~resp.aborted
                    /\ Cardinality(StepsOf(resp.steps, "ctx.Next")) = 1

\* A GET from an origin that is not on a list of one origin: no header, and
\* the request went on.
C28_Witness ==
    /\ resp.op = "CORS.Handle"
    /\ resp.cfg.Enabled
    /\ resp.cfg.AllowOrigins = <<"http://localhost:3000">>
    /\ resp.origin = "http://evil.example"
    /\ resp.method = "GET"
    /\ resp.headers.allowOrigin = ""
    /\ resp.steps = <<"ctx.Header", "ctx.Next">>

\* The :id parameters sent that are base-10 unsigned numbers of 32 bits, and
\* the number each of them is, written out by hand.
Uint32Params ==
    {<<"0">>, <<"1">>, <<"0", "1">>, <<"2">>,
     <<"2", "1", "4", "7", "4", "8", "3", "6", "4", "6">>}

Uint32Of(s) ==
    CASE s = <<"0">> -> 0
      [] s = <<"1">> -> 1
      [] s = <<"0", "1">> -> 1
      [] s = <<"2">> -> 2
      [] s = <<"2", "1", "4", "7", "4", "8", "3", "6", "4", "6">> -> 2147483646

\* C29: GetByID, Update and Delete answer an :id that is not a base-10
\* unsigned number of at most 1<<32 - 1 (empty, signed, not a number, too
\* large) with 400 "invalid id", without calling the service and without
\* changing the store; any other :id is never answered "invalid id" and is
\* the number the service is called with (GetByID and Delete always call
\* it, Update when the body binds).  1<<32 - 1 itself is in range.
C29_InvalidIDRefused ==
    [][(resp'.op = "Serve" /\ resp'.handler \in {"GetByID", "Update", "Delete"})
          => /\ ~OutOfRange32(MaxUint32Digits)
             /\ IF resp'.req.idParam \notin Uint32Params
                THEN /\ resp'.response.status = 400
                     /\ resp'.response.message = MsgInvalidID
                     /\ ~resp'.svcCalled
                     /\ table' = table
                     /\ nextID' = nextID
                ELSE /\ resp'.response.message # MsgInvalidID
                     /\ resp'.svcCalled
                           => resp'.svcID = Uint32Of(resp'.req.idParam)
                     /\ resp'.handler # "Update" => resp'.svcCalled]_<<dvars, hvars>>

\* DELETE with the id 4294967296 on a table that holds a record: refused
\* with 400 "invalid id" and the service was not called.
C29_Witness ==
    /\ resp.op = "Serve"
    /\ resp.handler = "Delete"
    /\ resp.req.idParam = <<"4", "2", "9", "4", "9", "6", "7", "2", "9", "6">>
    /\ resp.response.status = 400
    /\ resp.response.message = MsgInvalidID
    /\ ~resp.svcCalled
    /\ \E j \in IDs : HasRow(table, j)

\* Two Remember calls of the same key that have both returned a value.
BothRemembered(g, h) ==
    /\ g # h
    /\ calls[g].op = "Remember" /\ calls[h].op = "Remember"
    /\ calls[g].pc = "done" /\ calls[h].pc = "done"
    /\ calls[g].err = Nil /\ calls[h].err = Nil
    /\ calls[g].key = calls[h].key

\* Remember as one would read it with a lock around it: the callback runs
\* at most once across both calls, both return the same value, and that is
\* the value in the cache.
C26_ComputedOnce ==
    \A g \in Goroutines, h \in Goroutines :
        BothRemembered(g, h)
            => /\ calls[g].computed + calls[h].computed <= 1
               /\ calls[g].value = calls[h].value
               /\ store[calls[g].key].present
               /\ store[calls[g].key].value = calls[g].value

\* C26: each Remember call runs its callback at most once (so at most twice
\* across two calls for the same absent key); a call that ran its callback
\* returns the value the callback computed; and when both calls have
\* returned and the key is in the cache, the cache holds the value one of
\* them returned.
C26_ComputedOncePerCall ==
    /\ \A g \in Goroutines :
          calls[g].op = "Remember"
             => /\ calls[g].computed <= 1
                /\ (calls[g].pc = "done" /\ calls[g].err = Nil
                    /\ calls[g].computed = 1)
                      => calls[g].value = calls[g].cb.value
    /\ \A g \in Goroutines, h \in Goroutines :
          (BothRemembered(g, h) /\ store[calls[g].key].present)
              => store[calls[g].key].value \in {calls[g].value, calls[h].value}

\* Both calls missed the key, both ran their callbacks, they returned
\* different values, and the cache holds the value of one of them.
C26_Witness ==
    \E g \in Goroutines, h \in Goroutines :
        /\ BothRemembered(g, h)
        /\ calls[g].computed = 1
        /\ calls[h].computed = 1
        /\ calls[g].value # calls[h].value
        /\ store[calls[g].key].present
        /\ store[calls[g].key].value = calls[h].value

\* The rows the table holds.
TableRows == Select(table, QueryNil)

\* FindPage as one would read it with nothing running beside it: a total
\* and rows of one state of the table.
C27_PageMatchesTotal ==
    \A g \in Goroutines :
        (calls[g].op = "FindPage" /\ calls[g].pc = "done" /\ calls[g].err = Nil)
            => /\ Len(calls[g].rows) <= calls[g].total
               /\ (calls[g].page = 1 /\ calls[g].pageSize >= calls[g].total)
                     => Len(calls[g].rows) = calls[g].total

\* C27: FindPage returns as total the number of rows the table had at its
\* Count query and as rows a page of the table as it is at its Find query,
\* at most pageSize of them; when the table then holds as many rows as were
\* counted, the rows do not exceed the total and, for page 1 with
\* pageSize >= total, number exactly total.
C27_PageOfCurrentTable ==
    [][\A g \in Goroutines :
          /\ (calls[g].pc = "idle" /\ calls'[g].op = "FindPage"
              /\ calls'[g].pc = "find")
                => calls'[g].total = Len(TableRows)
          /\ (calls[g].op = "FindPage" /\ calls[g].pc = "find"
              /\ calls'[g].pc = "done" /\ calls'[g].err = Nil)
                => /\ calls'[g].total = calls[g].total
                   /\ Len(calls'[g].rows) <= calls[g].pageSize
                   /\ \A i \in 1..Len(calls'[g].rows) :
                         HasRow(table, calls'[g].rows[i].ID)
                   /\ calls[g].total = Len(TableRows)
                         => /\ Len(calls'[g].rows) <= calls[g].total
                            /\ (calls[g].page = 1
                                /\ calls[g].pageSize >= calls[g].total)
                                  => Len(calls'[g].rows) = calls[g].total]_<<dvars, rvars>>

\* FindPage returned the whole table on page 1 while a Delete of another
\* goroutine had read its record and not yet removed it.
C27_Witness ==
    \E g \in Goroutines, h \in Goroutines :
        /\ calls[g].op = "FindPage"
        /\ calls[g].pc = "done"
        /\ calls[g].page = 1
        /\ calls[g].pageSize >= calls[g].total
        /\ calls[g].total >= 1
        /\ Len(calls[g].rows) = calls[g].total
        /\ calls[h].op = "Service.Delete"
        /\ calls[h].pc = "delete"

(***************************************************************************)
(* Specifications.                                                         *)
(***************************************************************************)
vars == <<store, cres, cprev, table, nextID, now, res, resp, made, proc,
          calls>>

Init ==
    CacheInit /\ DemoInit /\ HttpInit /\ FactoryInit /\ ProcInit /\ RaceInit

\* The cache facade and the expiry of its entries.
SpecCache == Init /\ [][CacheNext]_vars

\* The operations of BaseRepository on the demos table, with
\* DemoRepository.FindPage; the clock stands still.
SpecRepo == Init /\ [][RepoNext]_vars

\* The Demo repository and the Demo service, with the clock.
SpecDemo == Init /\ [][DemoNext]_vars

\* The Demo service alone, with the clock.
SpecService == Init /\ [][ServiceNext]_vars

\* The server provideRouter assembles, one request at a time; the clock
\* stands still.
SpecHTTP == Init /\ [][HttpNext]_vars

SpecFactory == Init /\ [][FactoryNext]_vars

\* The process from its start to its exit.  The scheduler lets main take
\* its next step when it has one; when signals arrive and whether the
\* server fails is not up to the program.
SpecMain == Init /\ [][MainNext]_vars /\ WF_vars(MainProgram)

\* Demo calls of two goroutines, statement by statement.
SpecRaceDemo == Init /\ [][RaceDemoNext]_vars

\* Remember calls of two goroutines, statement by statement.
SpecRaceCache == Init /\ [][RaceCacheNext]_vars

====
